---- MODULE Spec2Model ----
(***************************************************************************)
(* Model of numpydoc_decorator.impl: the `doc` decorator factory, which    *)
(* checks a documentation request against a callable's signature and       *)
(* assembles a numpydoc docstring.                                         *)
(*                                                                         *)
(* Strings are TLA+ strings; a docstring is the sequence of its lines (the *)
(* text split at newlines).  A type annotation is a record                 *)
(* [tag, name, args]; a dict is the sequence of its items in insertion     *)
(* order.                                                                  *)
(***************************************************************************)
EXTENDS Integers, Sequences, FiniteSets, TLC

VARIABLES
    request,    \* the keyword arguments given to doc(...)
    pc,         \* "start" | "doc_raised" | "decorator" (doc returned the
                \* decorator) | "decorator_raised" | "done" (docstring attached)
    error,      \* "" or the exception raised
    sig,        \* signature(f) of the callable handed to the decorator
    f_doc,      \* f.__doc__, a sequence of lines; NoDoc while not attached
    f_annotations,  \* f.__annotations__, a dict from names to types
    given,      \* the arguments as the caller wrote them in the call of doc
    kept,       \* the outcome of one earlier use of a decorator, or NoOutcome
    block,      \* a text handed to format_paragraphs, character by character
    formatted   \* what format_paragraphs made of block, and of that in turn

vars == <<request, pc, error, sig, f_doc, f_annotations, given, kept, block, formatted>>

(***************************************************************************)
(* Bounds of the model.                                                    *)
(***************************************************************************)
MaxNamed == 3       \* most entries of a named returns/yields/receives map
MaxArity == 3       \* largest fixed tuple in a declared type
MaxParams == 2      \* most parameters of a signature
MaxKeys == 2        \* most keys of a parameters / other_parameters map
MaxLater == 2       \* most uses of a decorator after the outcome that is kept
MaxProse == 2
MaxParagraphs == 2  \* most paragraphs of a block of text
MaxPasses == 2      \* how often a block is put through format_paragraphs
MaxNesting == 2     \* how deep the declared types of SpecTypes are nested       \* most free-text sections present in one request

(***************************************************************************)
(* Generic helpers on sequences.                                           *)
(***************************************************************************)
Range(s) == {s[i] : i \in DOMAIN s}

RECURSIVE Join(_, _)
Join(sep, ss) ==
    IF ss = <<>> THEN ""
    ELSE IF Len(ss) = 1 THEN ss[1]
    ELSE ss[1] \o sep \o Join(sep, Tail(ss))

RECURSIVE Flatten(_)
Flatten(ss) == IF ss = <<>> THEN <<>> ELSE ss[1] \o Flatten(Tail(ss))

RECURSIVE Repeat(_, _)
Repeat(c, n) == IF n = 0 THEN "" ELSE c \o Repeat(c, n - 1)

\* all sequences without repetition, of length at most n, over the set S
RECURSIVE Arrangements(_, _)
Arrangements(S, n) ==
    IF n = 0 THEN {<<>>}
    ELSE LET shorter == Arrangements(S, n - 1)
         IN shorter \cup
            {Append(p[1], p[2]) : p \in {q \in shorter \X S : q[2] \notin Range(q[1])}}

(***************************************************************************)
(* Type annotations.  get_origin / get_args of typing are the name and the *)
(* args of a "generic" record; every other object has origin None ("").    *)
(***************************************************************************)
Ty(tag, name, args) == [tag |-> tag, name |-> name, args |-> args]

Empty == Ty("empty", "", <<>>)                \* Parameter.empty
NoneValue == Ty("None", "None", <<>>)         \* the annotation `-> None`
NoneType == Ty("class", "NoneType", <<>>)     \* type(None)
Class(n) == Ty("class", n, <<>>)              \* int, str, ...
Generic(origin, args) == Ty("generic", origin, args)
Ellipsis == Ty("ellipsis", "...", <<>>)
StrMeta(s) == Ty("str", s, <<>>)              \* a str inside Annotated[...]
ObjMeta(s) == Ty("obj", s, <<>>)              \* any other Annotated metadata
LitValue(r) == Ty("value", r, <<>>)           \* a value inside Literal[...]
ArrayLike == Ty("numpy", "ArrayLike", <<>>)
DTypeLike == Ty("numpy", "DTypeLike", <<>>)

TupleOf(args) == Generic("tuple", args)
Optional(t) == Generic("Union", <<t, NoneType>>)
Annotated(t, m) == Generic("Annotated", <<t, m>>)

typing_get_origin(t) == IF t.tag = "generic" THEN t.name ELSE ""
typing_get_args(t) == IF t.tag = "generic" THEN t.args ELSE <<>>

\* name under which typing prints an alias, "typing." already removed
AliasName(origin) ==
    CASE origin = "tuple" -> "Tuple"
      [] origin = "list" -> "List"
      [] origin = "dict" -> "Dict"
      [] OTHER -> origin

RECURSIVE format_type(_)

\* mutant: the arguments of a parameterized type are humanized in their turn
TypeHumanized(t) ==
    IF t.tag = "str" THEN "'" \o t.name \o "'"
    ELSE IF t.tag # "generic" THEN t.name
    ELSE IF t.args = <<>> THEN AliasName(t.name)
    ELSE AliasName(t.name) \o "["
         \o Join(", ", [i \in DOMAIN t.args |-> format_type(t.args[i])]) \o "]"

\* repr(t).replace("typing.", ""), with __name__ for a class
RECURSIVE TypeRepr(_)
TypeRepr(t) ==
    IF t.tag = "str" THEN "'" \o t.name \o "'"
    ELSE IF t.tag # "generic" THEN t.name
    ELSE IF t.args = <<>> THEN AliasName(t.name)
    ELSE IF t.name = "Union" /\ Len(t.args) = 2 /\ NoneType \in Range(t.args)
    THEN "Optional["
         \o TypeRepr(IF t.args[1] = NoneType THEN t.args[2] ELSE t.args[1])
         \o "]"
    ELSE AliasName(t.name) \o "["
         \o Join(", ", [i \in DOMAIN t.args |-> TypeRepr(t.args[i])]) \o "]"

\* str.lower() of the two names format_type lowers
Lower(s) == IF s = "Sequence" THEN "sequence" ELSE s

format_type(t) ==
    LET t_orig == typing_get_origin(t)
        t_args == typing_get_args(t)
    IN  IF t = NoneType THEN "None"
        ELSE IF t = ArrayLike THEN "array_like"
        ELSE IF t = Optional(ArrayLike) THEN "array_like or None"
        ELSE IF t = DTypeLike THEN "data-type"
        ELSE IF t = Optional(DTypeLike) THEN "data-type or None"
        ELSE IF t_orig = "Annotated" THEN format_type(t_args[1])
        ELSE IF t_orig = "Union" /\ t_args # <<>>
        THEN Join(" or ", [i \in DOMAIN t_args |-> format_type(t_args[i])])
        ELSE IF t_orig = "Optional" /\ t_args # <<>>
        THEN format_type(t_args[1]) \o " or None"
        ELSE IF t_orig = "Literal" /\ t_args # <<>>
        THEN "{" \o Join(", ", [i \in DOMAIN t_args |-> t_args[i].name]) \o "}"
        ELSE IF t_orig \in {"list", "Sequence"} /\ t_args # <<>>
        THEN Lower(format_type(Class(t_orig))) \o " of " \o format_type(t_args[1])
        ELSE IF t_orig = "tuple" /\ t_args # <<>> /\ Ellipsis \in Range(t_args)
        THEN "tuple of " \o format_type(t_args[1])
        ELSE TypeRepr(t)

(***************************************************************************)
(* Text.  A line is [ind, s]: ind spaces, then the characters s.  A block  *)
(* of text the code builds ("a\nb\n") is the sequence of its lines.  The   *)
(* prose handed to doc() is drawn from Prose: one-line paragraphs, without *)
(* surrounding whitespace, shorter than the fill width, so that strip and  *)
(* dedent leave them as they are and fill keeps them on one line.          *)
(***************************************************************************)
Line(ind, s) == [ind |-> ind, s |-> s]
Blank == Line(0, "")
newline == <<Blank>>

Names == {"bar", "baz", "qux", "extra", "spam", "eggs", "toast", "self"}

\* first words of the model's prose, as written and capitalized
FirstWords ==
    { <<"the ", "The ">>, <<"other ", "Other ">>, <<"hint ", "Hint ">>,
      <<"value ", "Value ">>, <<"some ", "Some ">>, <<"Done ", "Done ">> }

Topics ==
    Names \cup {"function", "reason", "details", "result", "items", "reply",
                "error", "warning", "caution", "notes", "paper", "usage",
                "other"}

Stops == {"", "."}

CapTable ==
    { <<w[1] \o x \o e, w[2] \o x \o e>> : w \in FirstWords, x \in Topics, e \in Stops }

\* s[0].capitalize() + s[1:]
Capitalize(s) ==
    IF \E c \in CapTable : c[1] = s
    THEN (CHOOSE c \in CapTable : c[1] = s)[2]
    ELSE s

\* texts of the model whose last character is one of ".!?:"
Stopped == { w[1] \o x \o "." : w \in FirstWords, x \in Topics }

punctuate(s) ==
    IF s # ""
    THEN IF s \notin Stopped THEN Capitalize(s) \o "." ELSE Capitalize(s)
    ELSE s

FillWidth == 70     \* textwrap.fill's default width

\* textwrap.fill on a one-line text shorter than the width
fill(s) == s

\* textwrap.indent: the prefix goes before every line that is not blank
indent(lines, prefix) ==
    [i \in DOMAIN lines |->
        IF lines[i].s = "" THEN lines[i]
        ELSE Line(lines[i].ind + prefix, lines[i].s)]

format_paragraph(s) == <<Line(0, fill(punctuate(s)))>>

format_indented_paragraph(s) == indent(format_paragraph(s), 4)

\* one paragraph (the model's prose has no blank line inside)
format_paragraphs(s) == <<Line(0, fill(punctuate(s))), Blank>>

format_indented_paragraphs(s) == indent(format_paragraphs(s), 4)

\* lines.strip("\n") + "\n" for a block of lines
RECURSIVE StripBlankEnds(_)
StripBlankEnds(lines) ==
    IF lines = <<>> THEN <<>>
    ELSE IF lines[1] = Blank THEN StripBlankEnds(Tail(lines))
    ELSE IF lines[Len(lines)] = Blank
    THEN StripBlankEnds(SubSeq(lines, 1, Len(lines) - 1))
    ELSE lines

(***************************************************************************)
(* dict: the sequence of its items [k, v] in insertion order.              *)
(***************************************************************************)
Item(k, v) == [k |-> k, v |-> v]
Keys(m) == [i \in DOMAIN m |-> m[i].k]
HasKey(m, k) == \E i \in DOMAIN m : m[i].k = k
Get(m, k) == m[CHOOSE i \in DOMAIN m : m[i].k = k].v
SetItem(m, k, v) ==
    IF HasKey(m, k)
    THEN [i \in DOMAIN m |-> IF m[i].k = k THEN Item(k, v) ELSE m[i]]
    ELSE Append(m, Item(k, v))
setdefault(m, k, v) == IF HasKey(m, k) THEN m ELSE Append(m, Item(k, v))

RECURSIVE update(_, _)
update(m, other) ==
    IF other = <<>> THEN m
    ELSE update(SetItem(m, other[1].k, other[1].v), Tail(other))

(***************************************************************************)
(* inspect.Signature: parameters in declaration order, return annotation.  *)
(* A default is a value (42 is LitValue("42"), 'spam' is StrMeta("spam"),  *)
(* None is NoneValue); NoDefault is Parameter.empty.                       *)
(***************************************************************************)
NoDefault == Empty
Param(name, kind, annotation, default) ==
    [name |-> name, kind |-> kind, annotation |-> annotation, default |-> default]
Signature(parameters, return_annotation) ==
    [parameters |-> parameters, return_annotation |-> return_annotation]

\* f.__annotations__ of a callable with signature s, as written
annotations_of(s) ==
    LET annotated == SelectSeq(s.parameters, LAMBDA param : param.annotation # Empty)
    IN  [i \in DOMAIN annotated |-> Item(annotated[i].name, annotated[i].annotation)]
        \o (IF s.return_annotation = Empty THEN <<>>
            ELSE <<Item("return", s.return_annotation)>>)

\* Annotated[t, ...] replaced by t, at every depth
RECURSIVE strip_annotations(_)
strip_annotations(t) ==
    IF t.tag # "generic" THEN t
    ELSE IF t.name = "Annotated" THEN strip_annotations(t.args[1])
    ELSE Generic(t.name, [i \in DOMAIN t.args |-> strip_annotations(t.args[i])])

\* get_type_hints(f, include_extras=...) for annotations that are types, not
\* strings: None becomes NoneType, Annotated is stripped unless extras are kept
get_type_hints(s, include_extras) ==
    LET hints == annotations_of(s)
        hint(t) == IF t = NoneValue THEN NoneType
                   ELSE IF include_extras THEN t ELSE strip_annotations(t)
    IN  [i \in DOMAIN hints |-> Item(hints[i].k, hint(hints[i].v))]

\* mutant: the default is introduced by "default="
format_parameter_equals(param, param_doc) ==
    LET head ==
            IF param.kind = "VAR_POSITIONAL" THEN "*" \o param.name
            ELSE IF param.kind = "VAR_KEYWORD" THEN "**" \o param.name
            ELSE param.name \o " :"
                 \o (IF param.annotation # Empty
                     THEN " " \o format_type(param.annotation) ELSE "")
                 \o (IF param.default # NoDefault
                     THEN (IF param.annotation # Empty THEN "," ELSE "")
                          \o " optional, default=" \o TypeRepr(param.default)
                     ELSE "")
    IN  <<Line(0, head)>>
        \o StripBlankEnds(format_indented_paragraphs(param_doc))
        \o (IF StripBlankEnds(format_indented_paragraphs(param_doc)) = <<>>
            THEN newline ELSE <<>>)

\* mutant: no " :" after the name where neither a type nor a default follows
format_parameter_bare(param, param_doc) ==
    LET head ==
            IF param.kind = "VAR_POSITIONAL" THEN "*" \o param.name
            ELSE IF param.kind = "VAR_KEYWORD" THEN "**" \o param.name
            ELSE param.name
                 \o (IF param.annotation # Empty \/ param.default # NoDefault THEN " :" ELSE "")
                 \o (IF param.annotation # Empty
                     THEN " " \o format_type(param.annotation) ELSE "")
                 \o (IF param.default # NoDefault
                     THEN (IF param.annotation # Empty THEN "," ELSE "")
                          \o " optional"
                          \o (IF param.default # NoneValue
                              THEN ", default: " \o TypeRepr(param.default) ELSE "")
                     ELSE "")
    IN  <<Line(0, head)>>
        \o StripBlankEnds(format_indented_paragraphs(param_doc))
        \o (IF StripBlankEnds(format_indented_paragraphs(param_doc)) = <<>>
            THEN newline ELSE <<>>)

\* mutant: a default of None is shown like any other, and *args and **kwargs
\* are given the " :" of a standard parameter
format_parameter_uniform(param, param_doc) ==
    LET head ==
            (IF param.kind = "VAR_POSITIONAL" THEN "*"
             ELSE IF param.kind = "VAR_KEYWORD" THEN "**" ELSE "")
            \o param.name \o " :"
            \o (IF param.annotation # Empty
                THEN " " \o format_type(param.annotation) ELSE "")
            \o (IF param.default # NoDefault
                THEN (IF param.annotation # Empty THEN "," ELSE "")
                     \o " optional, default: " \o TypeRepr(param.default)
                ELSE "")
    IN  <<Line(0, head)>>
        \o StripBlankEnds(format_indented_paragraphs(param_doc))
        \o (IF StripBlankEnds(format_indented_paragraphs(param_doc)) = <<>>
            THEN newline ELSE <<>>)

\* the two lines (header, description) of one documented parameter
format_parameter(param, param_doc) ==
    LET head ==
            IF param.kind = "VAR_POSITIONAL" THEN "*" \o param.name
            ELSE IF param.kind = "VAR_KEYWORD" THEN "**" \o param.name
            ELSE param.name \o " :"
                 \o (IF param.annotation # Empty
                     THEN " " \o format_type(param.annotation) ELSE "")
                 \o (IF param.default # NoDefault
                     THEN (IF param.annotation # Empty THEN "," ELSE "")
                          \o " optional"
                          \o (IF param.default # NoneValue
                              THEN ", default: " \o TypeRepr(param.default) ELSE "")
                     ELSE "")
    IN  <<Line(0, head)>>
        \o StripBlankEnds(format_indented_paragraphs(param_doc))
        \o (IF StripBlankEnds(format_indented_paragraphs(param_doc)) = <<>>
            THEN newline ELSE <<>>)

\* mutant: the documented parameters in the order of the dict
listed_in_dict_order(parameters, s) ==
    LET known(k) == \E i \in DOMAIN s.parameters : s.parameters[i].name = k
        keys == SelectSeq(Keys(parameters), LAMBDA k : k # "self" /\ known(k))
    IN  [i \in DOMAIN keys |->
            s.parameters[CHOOSE j \in DOMAIN s.parameters :
                             s.parameters[j].name = keys[i]]]

\* mutant: the keys the signature does not know are listed too, after the others
listed_with_unknown_keys(parameters, s) ==
    LET known(k) == \E i \in DOMAIN s.parameters : s.parameters[i].name = k
        unknown == SelectSeq(Keys(parameters), LAMBDA k : ~known(k))
    IN  SelectSeq(s.parameters,
                  LAMBDA param : param.name # "self" /\ HasKey(parameters, param.name))
        \o [i \in DOMAIN unknown |->
               Param(unknown[i], "POSITIONAL_OR_KEYWORD", Empty, NoDefault)]

\* the parameters format_parameters lists, in the order it lists them
listed_parameters(parameters, s) ==
    SelectSeq(s.parameters,
              LAMBDA param : param.name # "self" /\ HasKey(parameters, param.name))

format_parameters(parameters, s) ==
    LET listed == listed_parameters(parameters, s)
    IN  Flatten([i \in DOMAIN listed |->
                    format_parameter(listed[i], Get(parameters, listed[i].name))])

(***************************************************************************)
(* Exceptions and results.  A formatter returns [err, lines]; err is       *)
(* NoError unless the formatter raised.                                    *)
(***************************************************************************)
NoError == [type |-> "", msg |-> ""]
DocumentationError(msg) == [type |-> "DocumentationError", msg |-> msg]
TypeError(msg) == [type |-> "TypeError", msg |-> msg]
AssertionError == [type |-> "AssertionError", msg |-> ""]
Ok(lines) == [err |-> NoError, lines |-> lines]
Raise(e) == [err |-> e, lines |-> <<>>]

ErrBoth == DocumentationError("cannot have both returns and yields")
ErrReceives == DocumentationError("if receives, must also have yields")
ErrMissing(e) == DocumentationError("Parameter " \o e \o " not documented.")
ErrMoreValues == DocumentationError("more values documented than types")
ErrMoreTypes == DocumentationError("more types than values documented")
ErrYields == DocumentationError("return type is not compatible with yields")
ErrSend == DocumentationError("return type is not compatible with receives")

(***************************************************************************)
(* The values of the returns / yields / receives arguments: None, a str, a *)
(* Mapping (items), a tuple of names (the keys of items), True, or an      *)
(* object of another type.  PyTrue and PyNone stand for the values True    *)
(* and None where the code holds either a str or one of them; IntKey(i) is *)
(* the int i used as a dict key.                                           *)
(***************************************************************************)
PyTrue == "<True>"
PyNone == "<None>"
IntKey(i) == <<"<0>", "<1>", "<2>", "<3>", "<4>", "<5>">>[i + 1]
IsStr(x) == x \notin {PyTrue, PyNone} \cup {IntKey(i) : i \in 0..5}

Payload(kind, text, items) == [kind |-> kind, text |-> text, items |-> items]
PNone == Payload("None", "", <<>>)
PStr(s) == Payload("str", s, <<>>)
PMap(items) == Payload("Mapping", "", items)
PTuple(names) == Payload("tuple", "", [i \in DOMAIN names |-> Item(names[i], "")])
PTrue == Payload("True", "", <<>>)
PObject == Payload("object", "42", <<>>)   \* the int 42; text is its str()

\* bool(p)
Truthy(p) ==
    CASE p.kind = "None" -> FALSE
      [] p.kind = "str" -> p.text # ""
      [] p.kind \in {"Mapping", "tuple"} -> p.items # <<>>
      [] OTHER -> TRUE

unpack_optional(t) ==
    LET t_orig == typing_get_origin(t)
        t_args == typing_get_args(t)
    IN  IF t_orig = "Optional" THEN t_args[1]
        ELSE IF t_orig = "Union" /\ Len(t_args) = 2 /\ t_args[2] = NoneType
        THEN t_args[1]
        ELSE t

get_annotated_doc(t, default) ==
    IF typing_get_origin(t) = "Annotated" /\ typing_get_args(t)[2].tag = "str"
    THEN typing_get_args(t)[2].name
    ELSE default

\* a str or True, as a payload
AsPayload(x) == IF x = PyTrue THEN PTrue ELSE PStr(x)

auto_returns_single(returns, return_annotation) ==
    IF returns = PNone
    THEN AsPayload(get_annotated_doc(return_annotation, PyTrue))
    ELSE returns

RECURSIVE ZipDocs(_, _, _)
ZipDocs(ret_names, ret_args, returns_doc) ==
    IF ret_names = <<>> \/ ret_args = <<>> THEN returns_doc
    ELSE ZipDocs(Tail(ret_names), Tail(ret_args),
                 SetItem(returns_doc, ret_names[1],
                         get_annotated_doc(ret_args[1], PyTrue)))

auto_returns_multi(returns, ret_args) ==
    LET named == IF returns = PNone
                 THEN PTuple([i \in DOMAIN ret_args |-> IntKey(i - 1)])
                 ELSE returns
    IN  IF named.kind = "tuple"
        THEN PMap(ZipDocs(Keys(named.items), ret_args, <<>>))
        ELSE named

auto_returns(returns, return_annotation) ==
    LET ret_orig == typing_get_origin(return_annotation)
        ret_args == typing_get_args(return_annotation)
        ret_multi == ret_orig = "tuple" /\ Ellipsis \notin Range(ret_args)
    IN  IF ret_multi THEN auto_returns_multi(returns, ret_args)
        ELSE auto_returns_single(returns, return_annotation)

(***************************************************************************)
(* The Returns / Yields / Receives sections.                               *)
(***************************************************************************)
format_returns_auto(return_annotation) ==
    IF return_annotation = Empty THEN Raise(AssertionError)
    ELSE Ok(<<Line(0, format_type(return_annotation))>>)

format_returns_unnamed(returns, return_annotation) ==
    IF return_annotation = Empty
    THEN Ok(format_paragraph(returns) \o newline)
    ELSE Ok(<<Line(0, format_type(return_annotation))>>
            \o format_indented_paragraph(returns) \o newline)

\* mutant: a tuple with an Ellipsis is taken for several values
return_types_no_ellipsis(returns, return_annotation) ==
    IF return_annotation = Empty
    THEN [i \in DOMAIN returns |-> Empty]
    ELSE IF typing_get_origin(return_annotation) = "tuple"
            /\ typing_get_args(return_annotation) # <<>>
    THEN typing_get_args(return_annotation)
    ELSE <<return_annotation>>

\* mutant: without annotation a single value is assumed
return_types_single(returns, return_annotation) ==
    IF typing_get_origin(return_annotation) = "tuple"
       /\ typing_get_args(return_annotation) # <<>>
       /\ Ellipsis \notin Range(typing_get_args(return_annotation))
    THEN typing_get_args(return_annotation)
    ELSE <<return_annotation>>

\* the types the documented values are matched against
return_types(returns, return_annotation) ==
    IF return_annotation = Empty
    THEN [i \in DOMAIN returns |-> Empty]
    ELSE IF typing_get_origin(return_annotation) = "tuple"
    THEN LET return_type_args == typing_get_args(return_annotation)
         IN IF return_type_args # <<>> /\ Ellipsis \notin Range(return_type_args)
            THEN return_type_args
            ELSE <<return_annotation>>
    ELSE <<return_annotation>>

\* the lines of one documented value
format_return_slot(return_name, return_doc, return_type) ==
    <<Line(0, IF return_type = Empty THEN return_name \o " :"
              ELSE (IF IsStr(return_name) THEN return_name \o " : " ELSE "")
                   \o format_type(return_type))>>
    \o (IF IsStr(return_doc) THEN format_indented_paragraph(return_doc) ELSE <<>>)

\* mutant: every documented value is given the first of the types
zip_returns_first_type(returns, types) ==
    Flatten([i \in DOMAIN returns |->
                format_return_slot(returns[i].k, returns[i].v, types[1])])

\* for (name, doc), type in zip(returns.items(), return_types)
zip_returns(returns, types) ==
    Flatten([i \in DOMAIN returns |->
                format_return_slot(returns[i].k, returns[i].v, types[i])])

\* mutant: only a surplus of documented values is rejected
format_returns_named_zip(returns, return_annotation) ==
    LET types == return_types(returns, return_annotation)
    IN  IF Len(returns) > Len(types) THEN Raise(ErrMoreValues)
        ELSE Ok(zip_returns(returns, types) \o newline)

format_returns_named(returns, return_annotation) ==
    LET types == return_types(returns, return_annotation)
    IN  IF Len(returns) > Len(types) THEN Raise(ErrMoreValues)
        ELSE IF Len(returns) < Len(types) THEN Raise(ErrMoreTypes)
        ELSE Ok(zip_returns(returns, types) \o newline)

format_returns(returns, s) ==
    IF returns.kind = "True" THEN format_returns_auto(s.return_annotation)
    ELSE IF returns.kind = "str"
    THEN format_returns_unnamed(returns.text, s.return_annotation)
    ELSE IF returns.kind = "Mapping"
    THEN format_returns_named(returns.items, s.return_annotation)
    ELSE Raise(TypeError("returns must be str or Mapping"))

\* [err, t]: the YieldType inside the return annotation
get_yield_annotation(s) ==
    LET return_annotation == s.return_annotation
        ret_orig == typing_get_origin(return_annotation)
        ret_args == typing_get_args(return_annotation)
    IN  IF return_annotation = Empty THEN [err |-> NoError, t |-> Empty]
        ELSE IF ret_orig \notin {"Generator", "Iterator", "Iterable"}
        THEN [err |-> ErrYields, t |-> Empty]
        ELSE IF ret_args = <<>> THEN [err |-> NoError, t |-> Empty]
        ELSE [err |-> NoError, t |-> ret_args[1]]

\* [err, t]: the SendType inside the return annotation
get_send_annotation(s) ==
    LET return_annotation == s.return_annotation
        return_type_origin == typing_get_origin(return_annotation)
        return_type_args == typing_get_args(return_annotation)
    IN  IF return_annotation = Empty THEN [err |-> NoError, t |-> Empty]
        ELSE IF return_type_origin # "Generator"
        THEN [err |-> ErrSend, t |-> Empty]
        ELSE IF return_type_args = <<>> THEN [err |-> NoError, t |-> Empty]
        ELSE [err |-> NoError, t |-> return_type_args[2]]

\* shared body of format_yields and format_receives
format_values(values, annotation, what) ==
    IF values.kind = "str"
    THEN IF annotation.err # NoError THEN Raise(annotation.err)
         ELSE format_returns_unnamed(values.text, annotation.t)
    ELSE IF values.kind = "Mapping"
    THEN IF annotation.err # NoError THEN Raise(annotation.err)
         ELSE format_returns_named(values.items, annotation.t)
    ELSE Raise(TypeError(what \o " must be str or Mapping"))

format_yields(yields, s) == format_values(yields, get_yield_annotation(s), "yields")

format_receives(receives, s) ==
    format_values(receives, get_send_annotation(s), "receives")

(***************************************************************************)
(* The remaining sections.                                                 *)
(***************************************************************************)
format_raises(raises) ==
    Flatten([i \in DOMAIN raises |->
                <<Line(0, raises[i].k)>> \o format_indented_paragraph(raises[i].v)])

\* getattr(obj, "__qualname__", str(obj)) of an object without __qualname__
format_maybe_code(obj) == obj

SeeAlsoInline == 70     \* a description shorter than this stays on the name's line

format_see_also_item(name, description) ==
    IF IsStr(description) /\ description # ""
    THEN IF Len(description) < SeeAlsoInline
         THEN <<Line(0, format_maybe_code(name) \o " : " \o punctuate(description))>>
         ELSE <<Line(0, format_maybe_code(name) \o " :")>>
              \o format_indented_paragraph(description)
    ELSE <<Line(0, format_maybe_code(name))>>

\* a format_see_also whose last branch renders a str and drops anything else
format_see_also_strs(see_also) ==
    IF see_also.kind \in {"list", "tuple"}
    THEN [i \in DOMAIN see_also.items |-> Line(0, format_maybe_code(see_also.items[i].k))]
    ELSE IF see_also.kind = "Mapping"
    THEN Flatten([i \in DOMAIN see_also.items |->
                    format_see_also_item(see_also.items[i].k, see_also.items[i].v)])
    ELSE IF see_also.kind = "str" THEN <<Line(0, format_maybe_code(see_also.text))>>
    ELSE <<>>

format_see_also(see_also) ==
    IF see_also.kind \in {"list", "tuple"}
    THEN [i \in DOMAIN see_also.items |-> Line(0, format_maybe_code(see_also.items[i].k))]
    ELSE IF see_also.kind = "Mapping"
    THEN Flatten([i \in DOMAIN see_also.items |->
                    format_see_also_item(see_also.items[i].k, see_also.items[i].v)])
    ELSE <<Line(0, format_maybe_code(see_also.text))>>

format_references(references) ==
    [i \in DOMAIN references |->
        Line(0, ".. [" \o references[i].k \o "] "
                \o format_indented_paragraph(references[i].v)[1].s)]

\* inspect.cleandoc: the first line loses its indentation, the others their
\* common margin, and blank lines at both ends are removed
cleandoc(lines) ==
    LET rest == {i \in DOMAIN lines : i > 1 /\ lines[i].s # ""}
        margin == IF rest = {} THEN 0
                  ELSE CHOOSE m \in {lines[i].ind : i \in rest} :
                           \A i \in rest : m <= lines[i].ind
        shifted == [i \in DOMAIN lines |->
                       IF lines[i].s = "" THEN Blank
                       ELSE IF i = 1 THEN Line(0, lines[i].s)
                       ELSE Line(lines[i].ind - margin, lines[i].s)]
    IN  StripBlankEnds(shifted)

(***************************************************************************)
(* _doc and the decorator it returns.                                      *)
(***************************************************************************)
Request(summary, deprecation, extended_summary, parameters, returns, yields, receives, other_parameters, raises, warns, warnings, see_also, notes, references, examples, include_extras) ==
    [include_extras |-> include_extras, summary |-> summary, deprecation |-> deprecation,
     extended_summary |-> extended_summary, parameters |-> parameters,
     returns |-> returns, yields |-> yields, receives |-> receives,
     other_parameters |-> other_parameters, raises |-> raises, warns |-> warns,
     warnings |-> warnings, see_also |-> see_also, notes |-> notes,
     references |-> references, examples |-> examples]

\* mutant: returns together with yields is let through
sanity_checks_receives_only(req) ==
    IF Truthy(req.receives) /\ ~Truthy(req.yields) THEN ErrReceives ELSE NoError

\* mutant: receives without yields is let through
sanity_checks_both_only(req) ==
    IF Truthy(req.returns) /\ Truthy(req.yields) THEN ErrBoth ELSE NoError

\* the sanity checks of _doc
sanity_checks(req) ==
    IF Truthy(req.returns) /\ Truthy(req.yields) THEN ErrBoth
    ELSE IF Truthy(req.receives) /\ ~Truthy(req.yields) THEN ErrReceives
    ELSE NoError

\* param_docs after the loop over the Annotated types of the parameters
RECURSIVE annotated_param_docs(_, _)
annotated_param_docs(param_docs, parameters) ==
    IF parameters = <<>> THEN param_docs
    ELSE LET param == parameters[1]
             t == unpack_optional(param.annotation)
             param_doc == get_annotated_doc(t, PyNone)
         IN annotated_param_docs(
                IF param_doc \notin {PyNone, ""}
                THEN setdefault(param_docs, param.name, param_doc)
                ELSE param_docs,
                Tail(parameters))

get_param_docs(req, s) ==
    annotated_param_docs(
        IF Truthy(req.parameters) THEN update(<<>>, req.parameters.items) ELSE <<>>,
        s.parameters)

get_other_param_docs(req) ==
    IF Truthy(req.other_parameters)
    THEN update(<<>>, req.other_parameters.items) ELSE <<>>

\* mutant: the Returns section is derived from the return type whenever yields
\* is empty, not only when it is None
get_returns_doc_yields_empty(req, s) ==
    IF /\ s.return_annotation # Empty
       /\ s.return_annotation # NoneValue
       /\ s.return_annotation # NoneType
       /\ ~Truthy(req.yields)
    THEN auto_returns(req.returns, s.return_annotation)
    ELSE req.returns

\* mutant: the Returns section is derived from the return type whatever yields is
get_returns_doc_always(req, s) ==
    IF /\ s.return_annotation # Empty
       /\ s.return_annotation # NoneValue
       /\ s.return_annotation # NoneType
    THEN auto_returns(req.returns, s.return_annotation)
    ELSE req.returns

get_returns_doc(req, s) ==
    IF /\ s.return_annotation # Empty
       /\ s.return_annotation # NoneValue
       /\ s.return_annotation # NoneType
       /\ req.yields = PNone
    THEN auto_returns(req.returns, s.return_annotation)
    ELSE req.returns

\* mutant: the check looks at param_docs alone
missing_in_param_docs(req, s) ==
    SelectSeq(s.parameters,
              LAMBDA param : param.name # "self"
                             /\ ~HasKey(get_param_docs(req, s), param.name))

\* the parameters the check for missing parameters rejects, in signature order
missing_parameters(req, s) ==
    LET all_param_docs == update(update(<<>>, get_param_docs(req, s)),
                                 get_other_param_docs(req))
    IN  SelectSeq(s.parameters,
                  LAMBDA param : param.name # "self"
                                 /\ ~HasKey(all_param_docs, param.name))

Header(title) == <<Line(0, title), Line(0, Repeat("-", Len(title)))>>

Section(cond, result) == IF cond THEN result ELSE Ok(<<>>)

\* what the decorator appends to docstring, one result per `if` of the code
section_blocks(req, s) ==
    LET param_docs == get_param_docs(req, s)
        other_param_docs == get_other_param_docs(req)
        returns_doc == get_returns_doc(req, s)
        Under(title, r) == IF r.err # NoError THEN r ELSE Ok(Header(title) \o r.lines)
    IN  << Section(Truthy(req.summary),
                   Ok(format_paragraph(req.summary.text) \o newline)),
           Section(Truthy(req.deprecation),
                   Ok(<<Line(0, ".. deprecated:: " \o Get(req.deprecation.items, "version"))>>
                      \o format_indented_paragraph(Get(req.deprecation.items, "reason"))
                      \o newline)),
           Section(Truthy(req.extended_summary),
                   Ok(format_paragraph(req.extended_summary.text) \o newline)),
           Section(param_docs # <<>>,
                   Under("Parameters", Ok(format_parameters(param_docs, s) \o newline))),
           Section(Truthy(returns_doc),
                   Under("Returns", format_returns(returns_doc, s))),
           Section(Truthy(req.yields),
                   Under("Yields", format_yields(req.yields, s))),
           Section(Truthy(req.receives),
                   Under("Receives", format_receives(req.receives, s))),
           Section(other_param_docs # <<>>,
                   Under("Other Parameters",
                         Ok(format_parameters(other_param_docs, s) \o newline))),
           Section(Truthy(req.raises),
                   Under("Raises", Ok(format_raises(req.raises.items) \o newline))),
           Section(Truthy(req.warns),
                   Under("Warns", Ok(format_raises(req.warns.items) \o newline))),
           Section(Truthy(req.warnings),
                   Under("Warnings", Ok(format_paragraph(req.warnings.text) \o newline))),
           Section(Truthy(req.see_also),
                   Under("See Also", Ok(format_see_also(req.see_also) \o newline))),
           Section(Truthy(req.notes),
                   Under("Notes", Ok(format_paragraphs(req.notes.text)))),
           Section(Truthy(req.references),
                   Under("References",
                         Ok(format_references(req.references.items) \o newline))),
           Section(Truthy(req.examples),
                   Under("Examples", Ok(format_paragraphs(req.examples.text)))) >>

\* an assemble whose check for missing parameters comes after the sections
assemble_sections_first(req, s, blocks) ==
    LET missing == missing_parameters(req, s)
        failed == {i \in DOMAIN blocks : blocks[i].err # NoError}
    IN  IF failed # {}
        THEN Raise(blocks[CHOOSE i \in failed : \A j \in failed : i <= j].err)
        ELSE IF missing # <<>> THEN Raise(ErrMissing(missing[1].name))
        ELSE LET docstring == Flatten([i \in DOMAIN blocks |-> blocks[i].lines])
                 cleaned == cleandoc(docstring)
             IN Ok(newline \o (IF cleaned = <<>> THEN newline ELSE cleaned))

\* the decorator from the check for missing parameters on, given what its
\* `if` statements append: [err, lines], lines being the new f.__doc__
assemble(req, s, blocks) ==
    LET missing == missing_parameters(req, s)
        failed == {i \in DOMAIN blocks : blocks[i].err # NoError}
    IN  IF missing # <<>> THEN Raise(ErrMissing(missing[1].name))
        ELSE IF failed # {}
        THEN Raise(blocks[CHOOSE i \in failed : \A j \in failed : i <= j].err)
        ELSE LET docstring == Flatten([i \in DOMAIN blocks |-> blocks[i].lines])
                 cleaned == cleandoc(docstring)
             IN Ok(newline \o (IF cleaned = <<>> THEN newline ELSE cleaned))

\* mutant: Other Parameters is appended right after Parameters
decorator_other_parameters_early(req, s) ==
    LET blocks == section_blocks(req, s)
    IN  assemble(req, s,
                 SubSeq(blocks, 1, 4) \o <<blocks[8]>> \o SubSeq(blocks, 5, 7)
                 \o SubSeq(blocks, 9, Len(blocks)))

\* the body of the decorator
decorator(req, s) == assemble(req, s, section_blocks(req, s))

(***************************************************************************)
(* Text by the character.  For the claims about wrapping and paragraphs a  *)
(* str is the sequence of its characters, each a string of length one, and *)
(* the formatters are written over such sequences; they carry the names of *)
(* the functions with text_ in front.  The characters of the model are     *)
(* letters, the space, the newline and the marks . > [ (no tab, no         *)
(* hyphen).  A result is [err, text].                                      *)
(***************************************************************************)
NL == "\n"
Whitespace == {" ", NL}
IndexError == [type |-> "IndexError", msg |-> "string index out of range"]

Chars(c, n) == [i \in 1..n |-> c]

\* s.strip(chars)
text_strip(s, chars) ==
    LET keep == {i \in DOMAIN s : s[i] \notin chars}
    IN  IF keep = {} THEN <<>>
        ELSE SubSeq(s, CHOOSE i \in keep : \A j \in keep : i <= j,
                       CHOOSE i \in keep : \A j \in keep : i >= j)

\* s.split(sep) for a separator of one or two characters
RECURSIVE text_split(_, _)
text_split(s, sep) ==
    LET at == {i \in 1..(Len(s) - Len(sep) + 1) : SubSeq(s, i, i + Len(sep) - 1) = sep}
    IN  IF at = {} THEN <<s>>
        ELSE LET i == CHOOSE k \in at : \A j \in at : k <= j
             IN <<SubSeq(s, 1, i - 1)>> \o text_split(SubSeq(s, i + Len(sep), Len(s)), sep)

\* sep.join(parts)
RECURSIVE text_join(_, _)
text_join(sep, parts) ==
    IF parts = <<>> THEN <<>>
    ELSE IF Len(parts) = 1 THEN parts[1]
    ELSE parts[1] \o sep \o text_join(sep, Tail(parts))

\* textwrap.dedent: lines of whitespace become empty, the other lines lose the
\* leading whitespace they all share
text_dedent(s) ==
    LET lines == text_split(s, <<NL>>)
        blank(l) == \A i \in DOMAIN l : l[i] = " "
        Margin(l) == (CHOOSE i \in DOMAIN l : l[i] # " " /\ \A j \in 1..(i - 1) : l[j] = " ") - 1
        inked == {i \in DOMAIN lines : ~blank(lines[i])}
        margin == IF inked = {} THEN 0
                  ELSE CHOOSE m \in {Margin(lines[i]) : i \in inked} :
                           \A i \in inked : m <= Margin(lines[i])
    IN  text_join(<<NL>>, [i \in DOMAIN lines |->
                              IF blank(lines[i]) THEN <<>>
                              ELSE SubSeq(lines[i], margin + 1, Len(lines[i]))])

text_punctuate(s) ==
    IF s = <<>> THEN [err |-> NoError, text |-> s]
    ELSE LET stripped == text_strip(s, Whitespace)
         IN  IF stripped = <<>> THEN [err |-> IndexError, text |-> <<>>]
             ELSE LET capitalize(c) ==
                          CASE c = "a" -> "A" [] c = "b" -> "B" [] c = "x" -> "X"
                            [] c = "y" -> "Y" [] OTHER -> c
                      capitalized == <<capitalize(stripped[1])>> \o Tail(stripped)
                  IN  [err |-> NoError,
                       text |-> IF capitalized[Len(capitalized)] \notin {".", "!", "?", ":"}
                                THEN capitalized \o <<".">>
                                ELSE capitalized]

\* TextWrapper._split_chunks after _munge_whitespace: every whitespace
\* character becomes a space, then the text falls into runs of spaces and
\* runs of other characters
RECURSIVE split_chunks(_)
split_chunks(s) ==
    IF s = <<>> THEN <<>>
    ELSE LET munged == [i \in DOMAIN s |-> IF s[i] \in Whitespace THEN " " ELSE s[i]]
             other == {i \in DOMAIN s : (munged[i] = " ") # (munged[1] = " ")}
             n == IF other = {} THEN Len(s)
                  ELSE (CHOOSE i \in other : \A j \in other : i <= j) - 1
         IN  <<SubSeq(munged, 1, n)>> \o split_chunks(SubSeq(s, n + 1, Len(s)))

\* TextWrapper._wrap_chunks with the defaults (break_long_words,
\* drop_whitespace, no indents, no max_lines): the lines, in order
RECURSIVE wrap_chunks(_, _, _)
wrap_chunks(chunks, lines, width) ==
    IF chunks = <<>> THEN lines
    ELSE LET IsBlankChunk(chunk) == \A i \in DOMAIN chunk : chunk[i] = " "
             PrefixLen(cs, n) == Len(Flatten(SubSeq(cs, 1, n)))
             dropped == IF lines # <<>> /\ IsBlankChunk(chunks[1])
                        THEN Tail(chunks) ELSE chunks
             fits == {k \in 0..Len(dropped) : PrefixLen(dropped, k) <= width}
             k == CHOOSE i \in fits : \A j \in fits : i >= j
             rest == SubSeq(dropped, k + 1, Len(dropped))
             long == rest # <<>> /\ Len(rest[1]) > width
             space_left == width - PrefixLen(dropped, k)
             cur_line == SubSeq(dropped, 1, k)
                         \o (IF long THEN <<SubSeq(rest[1], 1, space_left)>> ELSE <<>>)
             left == IF long
                     THEN <<SubSeq(rest[1], space_left + 1, Len(rest[1]))>> \o Tail(rest)
                     ELSE rest
             kept_line == IF cur_line # <<>> /\ IsBlankChunk(cur_line[Len(cur_line)])
                          THEN SubSeq(cur_line, 1, Len(cur_line) - 1)
                          ELSE cur_line
         IN  wrap_chunks(left,
                         IF kept_line # <<>> THEN Append(lines, Flatten(kept_line))
                         ELSE lines,
                         width)

\* textwrap.wrap(s, width)
text_wrap(s, width) == wrap_chunks(split_chunks(s), <<>>, width)

\* mutant: the lines are filled up to 79 columns
text_fill_79(s) == text_join(<<NL>>, text_wrap(s, 79))

\* textwrap.fill(s), the width being the default one
text_fill(s) == text_join(<<NL>>, text_wrap(s, FillWidth))

text_format_paragraph(s) ==
    LET punctuated == text_punctuate(text_dedent(text_strip(s, {NL})))
    IN  IF punctuated.err # NoError THEN punctuated
        ELSE [err |-> NoError, text |-> text_fill(punctuated.text) \o <<NL>>]

\* paragraph.startswith(" ") or ... ("..") or ... (">") or ... ("[")
left_as_is(paragraph) ==
    LET startswith(s, prefix) == Len(s) >= Len(prefix) /\ SubSeq(s, 1, Len(prefix)) = prefix
    IN
    \/ startswith(paragraph, <<" ">>)
    \/ startswith(paragraph, <<".", ".">>)
    \/ startswith(paragraph, <<">">>)
    \/ startswith(paragraph, <<"[">>)

text_format_paragraphs(s) ==
    LET prep == text_dedent(text_strip(s, {NL}))
        paragraphs == text_split(prep, <<NL, NL>>)
        done == [i \in DOMAIN paragraphs |->
                    IF left_as_is(paragraphs[i])
                    THEN [err |-> NoError, text |-> paragraphs[i] \o <<NL, NL>>]
                    ELSE LET punctuated == text_punctuate(paragraphs[i])
                         IN  IF punctuated.err # NoError THEN punctuated
                             ELSE [err |-> NoError,
                                   text |-> text_fill(punctuated.text) \o <<NL, NL>>]]
        failed == {i \in DOMAIN done : done[i].err # NoError}
    IN  IF failed # {}
        THEN [err |-> done[CHOOSE i \in failed : \A j \in failed : i <= j].err,
              text |-> <<>>]
        ELSE [err |-> NoError, text |-> Flatten([i \in DOMAIN done |-> done[i].text])]

(***************************************************************************)
(* The inputs of the model: requests given to doc() and signatures of the  *)
(* callables handed to the decorator.                                      *)
(***************************************************************************)
\* --- signatures ---------------------------------------------------------
POK == "POSITIONAL_OR_KEYWORD"
Hinted(n) == Annotated(Class("int"), StrMeta("hint " \o n))

\* the ways a documentable parameter is declared in a list of several
ParamVariants(n) ==
    IF n = "self" THEN {Param(n, POK, Empty, NoDefault)}
    ELSE {Param(n, POK, Empty, NoDefault), Param(n, POK, Hinted(n), NoDefault)}

\* further ways a parameter is declared, tried on their own
SoloParams ==
    { Param("bar", POK, Class("int"), NoDefault),
      Param("bar", POK, Optional(Hinted("bar")), NoDefault),
      Param("bar", POK, Annotated(Class("int"), StrMeta("")), NoDefault),
      Param("bar", POK, Annotated(Class("int"), ObjMeta("Doc")), NoDefault),
      Param("bar", POK, Empty, LitValue("42")),
      Param("bar", POK, Class("int"), LitValue("42")),
      Param("bar", POK, Class("int"), NoneValue),
      Param("bar", "KEYWORD_ONLY", Empty, NoneValue),
      Param("bar", "VAR_POSITIONAL", Empty, NoDefault),
      Param("bar", "VAR_KEYWORD", Empty, NoDefault) }

ParamNames == {"self", "bar", "baz"}

RECURSIVE Declared(_)
Declared(names) ==
    IF names = <<>> THEN {<<>>}
    ELSE {<<p>> \o rest : p \in ParamVariants(names[1]), rest \in Declared(Tail(names))}

ParamLists ==
    UNION {Declared(names) : names \in Arrangements(ParamNames, MaxParams)}
    \cup {<<p>> : p \in SoloParams}

\* --- declared value types -----------------------------------------------
ElemTypes == <<Class("str"), Class("int"), Class("float"), Class("bool"), Class("bytes")>>
FixedTuple(a) == TupleOf([i \in 1..a |-> ElemTypes[((i - 1) % Len(ElemTypes)) + 1]])
VariadicTuple == TupleOf(<<Class("str"), Ellipsis>>)

ValueTypes == {Class("str"), VariadicTuple} \cup {FixedTuple(a) : a \in 1..MaxArity}

ReturnAnnotations ==
    {Empty, NoneValue, NoneType, TupleOf(<<>>),
     Annotated(Class("str"), StrMeta("hint result")),
     Annotated(Class("str"), StrMeta("")),
     TupleOf(<<Annotated(Class("int"), StrMeta("hint spam")), Class("str")>>),
     Optional(Class("int")),
     Generic("dict", <<Class("str"), Class("int")>>)}
    \cup ValueTypes

\* typing.Generator, typing.Iterator and typing.Iterable, bare and subscripted,
\* and the class collections.abc.Iterator itself, which has no origin
GeneratorAnnotations ==
    {Generic("Generator", <<>>), Generic("Iterator", <<>>), Generic("Iterable", <<>>),
     Class("Iterator")}
    \cup {Generic("Iterator", <<y>>) : y \in ValueTypes}
    \cup {Generic("Iterable", <<y>>) : y \in ValueTypes}
    \cup {Generic("Generator", <<y, t, NoneType>>) : y \in ValueTypes, t \in ValueTypes}

\* the signatures tried with the requests that vary parameters / other_parameters
ParamSignatures == {Signature(ps, Empty) : ps \in ParamLists}

\* the signatures tried with the requests that vary returns / yields / receives
ValueSignatures ==
    {Signature(ps, r) :
        ps \in {<<>>, <<Param("bar", POK, Empty, NoDefault)>>},
        r \in ReturnAnnotations \cup GeneratorAnnotations}

\* the signatures tried with the requests that vary the free-text sections
ProseSignatures ==
    {Signature(ps, r) :
        ps \in {<<>>, <<Param("bar", POK, Empty, NoDefault),
                        Param("baz", POK, Class("int"), LitValue("42"))>>},
        r \in {Empty, Class("str"),
               Generic("Generator", <<Class("str"), Class("int"), NoneType>>)}}

\* --- requests -----------------------------------------------------------
DocKeys == {"bar", "baz", "extra"}

\* a parameters / other_parameters argument: None or a dict, keys in any order
ParamMaps(word) ==
    {PNone} \cup
    {PMap([i \in DOMAIN ks |-> Item(ks[i], word \o ks[i])]) :
        ks \in Arrangements(DocKeys, MaxKeys)}

ValueNames == <<"spam", "eggs", "toast", "bacon", "beans">>
NamedValues(names) == PMap([i \in DOMAIN names |-> Item(names[i], "value " \o names[i])])

\* a returns / yields / receives argument
ValuePayloads(text) ==
    {PNone, PStr(""), PStr(text), NamedValues(<<"eggs", "spam">>)}
    \cup {NamedValues(SubSeq(ValueNames, 1, n)) : n \in 0..MaxNamed}

Plain ==
    Request(PStr("the function"), PNone, PNone, PNone, PNone, PNone, PNone, PNone,
            PNone, PNone, PNone, PNone, PNone, PNone, PNone, FALSE)

ParamRequests ==
    {[Plain EXCEPT !.parameters = p, !.other_parameters = o] :
        p \in ParamMaps("the "), o \in ParamMaps("other ")}
    \cup {[Plain EXCEPT !.include_extras = TRUE]}

\* arguments that are neither a str nor a Mapping (a tuple of names is
\* accepted for returns when the declared return type is a fixed tuple)
InvalidRequests ==
    {[Plain EXCEPT !.returns = PObject],
     [Plain EXCEPT !.returns = PTuple(<<"spam", "eggs">>)],
     [Plain EXCEPT !.yields = PObject],
     [Plain EXCEPT !.yields = PStr("the items"), !.receives = PObject],
     [Plain EXCEPT !.yields = PObject, !.receives = PObject],
     [Plain EXCEPT !.see_also = PObject]}

ValueRequests ==
    {[Plain EXCEPT !.parameters = p, !.returns = r, !.yields = y, !.receives = c] :
        p \in {PNone, PMap(<<Item("bar", "the bar")>>)},
        r \in ValuePayloads("the result"),
        y \in ValuePayloads("the items"),
        c \in ValuePayloads("the reply")}
    \cup InvalidRequests

\* the free-text arguments, by name; see_also has three shapes
ProseOptions ==
    {"summary", "deprecation", "extended_summary", "raises", "warns", "warnings",
     "see_also:str", "see_also:list", "see_also:Mapping", "notes", "references",
     "examples"}

ProseChoices ==
    {S \in SUBSET ProseOptions :
        /\ Cardinality(S) <= MaxProse \/ S = ProseOptions \ {"see_also:str", "see_also:list"}
        /\ Cardinality(S \cap {"see_also:str", "see_also:list", "see_also:Mapping"}) <= 1}

WithProse(base, S) ==
    [base EXCEPT
        !.summary = IF "summary" \in S THEN PStr("the function") ELSE PStr(""),
        !.deprecation =
            IF "deprecation" \in S
            THEN PMap(<<Item("version", "1.0"), Item("reason", "the reason")>>)
            ELSE PNone,
        !.extended_summary = IF "extended_summary" \in S THEN PStr("some details") ELSE PNone,
        !.raises = IF "raises" \in S THEN PMap(<<Item("ValueError", "the error")>>) ELSE PNone,
        !.warns = IF "warns" \in S THEN PMap(<<Item("UserWarning", "the warning")>>) ELSE PNone,
        !.warnings = IF "warnings" \in S THEN PStr("some caution") ELSE PNone,
        !.see_also =
            IF "see_also:str" \in S THEN PStr("spam")
            ELSE IF "see_also:list" \in S
            THEN Payload("list", "", <<Item("spam", ""), Item("eggs", "")>>)
            ELSE IF "see_also:Mapping" \in S
            THEN PMap(<<Item("spam", "the other"), Item("eggs", PyNone)>>)
            ELSE PNone,
        !.notes = IF "notes" \in S THEN PStr("some notes") ELSE PNone,
        !.references = IF "references" \in S THEN PMap(<<Item("1", "the paper")>>) ELSE PNone,
        !.examples = IF "examples" \in S THEN PStr("some usage") ELSE PNone]

ProseBases ==
    { Plain,
      [Plain EXCEPT !.parameters = PMap(<<Item("bar", "the bar")>>),
                    !.other_parameters = PMap(<<Item("baz", "other baz")>>),
                    !.returns = PStr("the result")],
      [Plain EXCEPT !.parameters = PMap(<<Item("bar", "the bar")>>),
                    !.other_parameters = PMap(<<Item("baz", "other baz")>>),
                    !.yields = NamedValues(<<"spam">>),
                    !.receives = NamedValues(<<"eggs">>)] }

ProseRequests == {WithProse(base, S) : base \in ProseBases, S \in ProseChoices}

Requests == ParamRequests \cup ValueRequests \cup ProseRequests

\* the callables a decorator built from req is applied to
SignaturesFor(req) ==
    (IF req \in ParamRequests THEN ParamSignatures ELSE {})
    \cup (IF req \in ValueRequests THEN ValueSignatures ELSE {})
    \cup (IF req \in ProseRequests THEN ProseSignatures ELSE {})

(***************************************************************************)
(* The state machine: doc(request) runs the sanity checks and returns    *)
(* the decorator; the decorator applied to f builds and attaches the       *)
(* docstring, or raises and leaves f as it was.                            *)
(***************************************************************************)
NoDoc == <<>>       \* f.__doc__ is None
NoSignature == Signature(<<>>, Empty)
NoOutcome ==
    [given |-> Plain, sig |-> NoSignature, pc |-> "", error |-> NoError,
     doc |-> NoDoc, annotations |-> <<>>, later |-> 0]

Init ==
    /\ request = Plain
    /\ pc = "start"
    /\ error = NoError
    /\ sig = NoSignature
    /\ f_doc = NoDoc
    /\ f_annotations = annotations_of(NoSignature)
    /\ given = Plain
    /\ kept = NoOutcome
    /\ block = <<>>
    /\ formatted = <<>>

Doc(req) ==
    /\ pc = "start"
    /\ request' = req
    /\ given' = req
    /\ error' = sanity_checks(req)
    /\ pc' = IF sanity_checks(req) = NoError THEN "decorator" ELSE "doc_raised"
    /\ UNCHANGED <<sig, f_doc, f_annotations, kept, block, formatted>>

\* mutant: param_docs is the caller's dict itself, so the texts of Annotated
\* hints are left in it
closure_after_aliased(req, s) ==
    IF Truthy(req.parameters)
    THEN [req EXCEPT !.parameters = PMap(get_param_docs(req, s))]
    ELSE req

\* mutant: param_docs is one dict made by doc and shared by all applications
\* of the decorator
closure_after_shared(req, s) ==
    IF get_param_docs(req, s) = <<>> THEN req
    ELSE [req EXCEPT !.parameters = PMap(get_param_docs(req, s))]

\* the arguments the decorator holds after it was applied: what it held
\* before, since it works on dicts of its own
closure_after(req, s) == req

\* mutant: the docstring built so far and the hints are attached before the
\* outcome of the sections is known
attach_unchecked(r, s, include_extras) ==
    [doc |-> IF r.err = NoError THEN r.lines ELSE newline,
     annotations |-> get_type_hints(s, include_extras)]

\* f.__doc__ and f.__annotations__ once the decorator has returned or raised:
\* both are assigned after the last section, so an exception leaves them alone
attach(r, s, include_extras) ==
    IF r.err = NoError
    THEN [doc |-> r.lines, annotations |-> get_type_hints(s, include_extras)]
    ELSE [doc |-> NoDoc, annotations |-> annotations_of(s)]

\* the decorator applied to a callable f with signature s, whose __doc__ is
\* None and whose __annotations__ are those s was read from
Decorate(s) ==
    /\ pc = "decorator"
    /\ kept.later < MaxLater
    /\ sig' = s
    /\ \E r \in {decorator(request, s)} :
           /\ error' = r.err
           /\ pc' = IF r.err = NoError THEN "done" ELSE "decorator_raised"
           /\ f_doc' = attach(r, s, request.include_extras).doc
           /\ f_annotations' = attach(r, s, request.include_extras).annotations
    /\ request' = closure_after(request, s)
    /\ kept' = IF kept = NoOutcome THEN kept ELSE [kept EXCEPT !.later = @ + 1]
    /\ UNCHANGED <<given, block, formatted>>

Next ==
    \/ \E req \in Requests : Doc(req)
    \/ \E s \in SignaturesFor(request) : Decorate(s)

Spec == Init /\ [][Next]_vars

(***************************************************************************)
(* A decorator used again and again.  doc(...) returns a function, which   *)
(* may be applied to any number of callables, and doc may be called again  *)
(* with arguments written the same way.  One outcome is kept aside, to be  *)
(* compared with what the same arguments and signature give later.         *)
(***************************************************************************)
Finished == {"done", "decorator_raised", "doc_raised"}

\* the decorator is about to be applied to another callable
Again ==
    /\ pc \in {"done", "decorator_raised"}
    /\ pc' = "decorator"
    /\ error' = NoError
    /\ sig' = NoSignature
    /\ f_doc' = NoDoc
    /\ f_annotations' = annotations_of(NoSignature)
    /\ UNCHANGED <<request, given, kept, block, formatted>>

\* doc is about to be called anew
Restart ==
    /\ pc \in Finished
    /\ pc' = "start"
    /\ request' = Plain
    /\ given' = Plain
    /\ error' = NoError
    /\ sig' = NoSignature
    /\ f_doc' = NoDoc
    /\ f_annotations' = annotations_of(NoSignature)
    /\ UNCHANGED <<kept, block, formatted>>

\* the outcome just reached is kept aside
Keep ==
    /\ pc \in Finished
    /\ kept = NoOutcome
    /\ kept' = [given |-> given, sig |-> sig, pc |-> pc, error |-> error,
                doc |-> f_doc, annotations |-> f_annotations, later |-> 0]
    /\ UNCHANGED <<request, pc, error, sig, f_doc, f_annotations, given, block, formatted>>

RequestsAgain ==
    {Plain,
     [Plain EXCEPT !.parameters = PMap(<<Item("baz", "the baz")>>)],
     [Plain EXCEPT !.parameters = PMap(<<Item("baz", "the baz"), Item("bar", "the bar")>>)],
     [Plain EXCEPT !.returns = NamedValues(<<"spam", "eggs">>)],
     [Plain EXCEPT !.yields = PStr("the items"), !.receives = PStr("the reply")],
     [Plain EXCEPT !.returns = PStr("the result"), !.yields = PStr("the items")],
     [Plain EXCEPT !.returns = PObject]}

SignaturesAgain ==
    {Signature(<<>>, Empty),
     Signature(<<Param("bar", POK, Empty, NoDefault), Param("baz", POK, Empty, NoDefault)>>, Empty),
     Signature(<<Param("bar", POK, Hinted("bar"), NoDefault), Param("baz", POK, Empty, NoDefault)>>, Class("str")),
     Signature(<<>>, FixedTuple(2)),
     Signature(<<>>, Generic("Generator", <<Class("str"), Class("int"), NoneType>>))}

NextAgain ==
    \/ \E req \in RequestsAgain : Doc(req)
    \/ \E s \in SignaturesAgain : Decorate(s)
    \/ Again
    \/ Restart
    \/ Keep

SpecAgain == Init /\ [][NextAgain]_vars

(***************************************************************************)
(* The header line of one parameter: doc(parameters={"bar": ...}) applied  *)
(* to functions of one parameter, declared with nested types and defaults. *)
(***************************************************************************)
RECURSIVE TypesUpTo(_)
TypesUpTo(n) ==
    IF n = 0 THEN {Class("int"), Class("str")}
    ELSE LET inner == TypesUpTo(n - 1)
             plain == {x \in inner : typing_get_origin(x) # "Union"}
         IN  inner
             \cup {Generic("Union", <<Class("int"), Class("str")>>)}
             \cup {Generic("Union", <<x, NoneType>>) : x \in plain}
             \cup {Generic("list", <<x>>) : x \in inner}
             \cup {Generic("dict", <<Class("str"), x>>) : x \in inner}
             \cup {TupleOf(<<Class("int"), x>>) : x \in inner}
             \cup {TupleOf(<<x, Ellipsis>>) : x \in inner}

\* the declared types: nested ones and, for each that is not a union, the
\* union with the null type written first.  (Inside another type typing may
\* hand back an equal union made earlier, with its members in the other
\* order; there the order is not the one written, and no such type is
\* declared here.)
DeclaredTypes ==
    TypesUpTo(MaxNesting)
    \cup {Generic("Union", <<NoneType, x>>) :
            x \in {y \in TypesUpTo(MaxNesting) : typing_get_origin(y) # "Union"}}

\* one parameter, with or without a declared type: a standard one with no
\* default or the default 42, 'spam', True or None, or *bar, or **bar
TypedSignatures ==
    {Signature(<<Param("bar", POK, a, d)>>, Empty) :
        a \in DeclaredTypes \cup {Empty},
        d \in {NoDefault, LitValue("42"), StrMeta("spam"), LitValue("True"), NoneValue}}
    \cup {Signature(<<Param("bar", kind, a, NoDefault)>>, Empty) :
            a \in DeclaredTypes \cup {Empty}, kind \in {"VAR_POSITIONAL", "VAR_KEYWORD"}}

NextTypes ==
    \/ Doc([Plain EXCEPT !.parameters = PMap(<<Item("bar", "the bar")>>)])
    \/ \E s \in TypedSignatures : Decorate(s)

SpecTypes == Init /\ [][NextTypes]_vars

(***************************************************************************)
(* format_paragraphs on its own: a block of text is formatted, and the     *)
(* result is formatted again.                                              *)
(***************************************************************************)
\* paragraphs that are filled: empty, of two short lines, of two words that
\* fit in 79 columns but not in 70 and end in a full stop, of two words that
\* fit in 70 columns but for the two spaces between them, of one word wider
\* than a line
ProseParagraphs ==
    { <<>>,
      Chars("x", 75),
      <<"a", NL, "b">>,
      Chars("x", 36) \o <<" ">> \o Chars("y", 38) \o <<".">>,
      Chars("x", 35) \o <<" ", " ">> \o Chars("y", 33) }

\* paragraphs that are left as they are: a prompt, an indented line, a
\* directive wider than 70 columns, a citation
VerbatimParagraphs ==
    { <<">", ">", ">", " ", "a">>,
      <<" ", " ", "a", " ", " ", "b">>,
      <<".", ".", " ">> \o Chars("x", 36) \o <<" ">> \o Chars("y", 38),
      <<"[", "a">> }

Paragraphs == ProseParagraphs \cup VerbatimParagraphs

\* one or two blank lines between paragraphs
Separators == {<<NL, NL>>, <<NL, NL, NL>>}

RECURSIVE Bodies(_)
Bodies(n) ==
    IF n = 1 THEN Paragraphs
    ELSE Bodies(n - 1)
         \cup {b \o sep \o para : b \in Bodies(n - 1), sep \in Separators, para \in Paragraphs}

\* the text as it stands between triple quotes in an indented call: a newline,
\* every line that is not empty indented by four spaces, a newline and the
\* indentation of the closing quotes
Quoted(body) ==
    LET lines == text_split(body, <<NL>>)
    IN  <<NL>>
        \o text_join(<<NL>>, [i \in DOMAIN lines |->
                                 IF lines[i] = <<>> THEN <<>>
                                 ELSE Chars(" ", 4) \o lines[i]])
        \o <<NL>> \o Chars(" ", 4)

Blocks == Bodies(MaxParagraphs) \cup {Quoted(body) : body \in Bodies(MaxParagraphs)}

InitText ==
    /\ request = Plain
    /\ pc = "start"
    /\ error = NoError
    /\ sig = NoSignature
    /\ f_doc = NoDoc
    /\ f_annotations = annotations_of(NoSignature)
    /\ given = Plain
    /\ kept = NoOutcome
    /\ block \in Blocks
    /\ formatted = <<>>

\* format_paragraphs applied to the block, then to its own result
FormatParagraphs ==
    /\ Len(formatted) < MaxPasses
    /\ IF formatted = <<>> THEN TRUE ELSE formatted[Len(formatted)].err = NoError
    /\ formatted' = Append(formatted,
                           text_format_paragraphs(IF formatted = <<>> THEN block
                                                  ELSE formatted[Len(formatted)].text))
    /\ UNCHANGED <<request, pc, error, sig, f_doc, f_annotations, given, kept, block>>

SpecText == InitText /\ [][FormatParagraphs]_vars

(***************************************************************************)
(* Reading a docstring back: its sections and their entries.               *)
(***************************************************************************)
Decorated == pc \in {"done", "decorator_raised"}

Titles ==
    <<"Parameters", "Returns", "Yields", "Receives", "Other Parameters", "Raises",
      "Warns", "Warnings", "See Also", "Notes", "References", "Examples">>

Dashes(title) == Line(0, Repeat("-", Len(title)))

\* the lines at which a section with this title starts
HeadersOf(lines, title) ==
    LET head == Line(0, title)
        dashes == Dashes(title)
    IN  {i \in DOMAIN lines :
            /\ i < Len(lines)
            /\ lines[i] = head
            /\ lines[i + 1] = dashes}

AllHeaders(lines) == UNION {HeadersOf(lines, Titles[k]) : k \in DOMAIN Titles}

HasSection(lines, title) == HeadersOf(lines, title) # {}

\* the lines of the (first) section with this title, header excluded
BodyOf(lines, title) ==
    LET start == CHOOSE i \in HeadersOf(lines, title) :
                     \A j \in HeadersOf(lines, title) : i <= j
        later == {j \in AllHeaders(lines) : j > start}
        stop == IF later = {} THEN Len(lines) + 1
                ELSE CHOOSE j \in later : \A k \in later : j <= k
    IN  SubSeq(lines, start + 2, stop - 1)

\* the header lines of the entries of a section: its unindented, non-blank lines
EntriesOf(lines, title) ==
    IF HasSection(lines, title)
    THEN LET heads == SelectSeq(BodyOf(lines, title),
                                LAMBDA l : l.ind = 0 /\ l.s # "")
         IN [i \in DOMAIN heads |-> heads[i].s]
    ELSE <<>>

\* an argument counts as supplied when it is neither absent nor empty
Supplied(p) == p.kind # "None" /\ (p.text # "" \/ p.items # <<>> \/ p.kind \in {"True", "object"})

DocKeysOf(p) == IF p.kind = "Mapping" THEN {p.items[i].k : i \in DOMAIN p.items} ELSE {}

\* keys of parameters and other_parameters taken together
DocumentedNames == DocKeysOf(request.parameters) \cup DocKeysOf(request.other_parameters)

SignatureNames == {sig.parameters[i].name : i \in DOMAIN sig.parameters}

\* the annotation, or the X of Optional[X], is Annotated[..., "<text>"]
CarriesHint(param) ==
    LET a == param.annotation
        inner == IF a.tag = "generic" /\ a.name = "Union" /\ Len(a.args) = 2
                    /\ a.args[2] = NoneType
                 THEN a.args[1] ELSE a
    IN  inner.tag = "generic" /\ inner.name = "Annotated" /\ inner.args[2].tag = "str"

IsMissingError(e) == \E n \in SignatureNames : e = ErrMissing(n)

HintText(param) ==
    LET a == param.annotation
    IN  IF ~CarriesHint(param) THEN ""
        ELSE IF a.name = "Annotated" THEN a.args[2].name
        ELSE a.args[1].args[2].name

\* the signature's parameters a section has to list, in declaration order:
\* those named by the dict and, under Parameters, those with an Annotated text
ExpectedUnder(title) ==
    SelectSeq(sig.parameters,
              LAMBDA param :
                  /\ param.name # "self"
                  /\ IF title = "Parameters"
                     THEN \/ param.name \in DocKeysOf(request.parameters)
                          \/ HintText(param) # ""
                     ELSE param.name \in DocKeysOf(request.other_parameters))

\* the header line of a parameter's entry
HeadOf(param) == format_parameter(param, "")[1].s

(***************************************************************************)
(* Claims about the parameters.                                            *)
(***************************************************************************)

\* C1: once the decorator has run, a parameter other than self that has no
\* entry in parameters or other_parameters and no Annotated doc hint makes it
\* raise the missing-parameter DocumentationError; when every parameter other
\* than self has an entry the missing-parameter error is not raised; and self
\* is never reported missing.
C1_ParameterCompleteness ==
    Decorated =>
        /\ (\E i \in DOMAIN sig.parameters :
                /\ sig.parameters[i].name # "self"
                /\ sig.parameters[i].name \notin DocumentedNames
                /\ ~CarriesHint(sig.parameters[i]))
           => /\ pc = "decorator_raised"
              /\ IsMissingError(error)
              /\ error.type = "DocumentationError"
              /\ f_doc = NoDoc
        /\ (\A i \in DOMAIN sig.parameters :
                sig.parameters[i].name # "self"
                => sig.parameters[i].name \in DocumentedNames)
           => ~IsMissingError(error)
        /\ error # ErrMissing("self")

\* C1 witness: bar is documented under other_parameters only, nothing documents
\* baz, and the decorator raised for baz.
C1_Witness ==
    /\ pc = "decorator_raised"
    /\ error = ErrMissing("baz")
    /\ request.parameters = PNone
    /\ DocKeysOf(request.other_parameters) = {"bar", "extra"}
    /\ SignatureNames = {"bar", "baz"}

ExtraKeys == DocumentedNames \ SignatureNames

WithoutExtraKeys(p) ==
    IF p.kind = "Mapping"
    THEN PMap(SelectSeq(p.items, LAMBDA item : item.k \in SignatureNames))
    ELSE p

\* C2: a key of parameters or other_parameters that names no parameter of the
\* signature changes nothing about whether, and with what error, the
\* decorator raises, and no entry for that name is rendered: the sections list
\* the signature's parameters only.
C2_ExtraKeysIgnored ==
    (Decorated /\ ExtraKeys # {}) =>
        /\ error = decorator([request EXCEPT
                                 !.parameters = WithoutExtraKeys(@),
                                 !.other_parameters = WithoutExtraKeys(@)],
                             sig).err
        /\ ~\E i \in DOMAIN f_doc : \E n \in ExtraKeys :
               f_doc[i].s \in {n, n \o " :", "*" \o n, "**" \o n}
        /\ pc = "done" =>
              /\ Len(EntriesOf(f_doc, "Parameters")) = Len(ExpectedUnder("Parameters"))
              /\ Len(EntriesOf(f_doc, "Other Parameters"))
                     = Len(ExpectedUnder("Other Parameters"))

\* C2 witness: both dicts carry the key extra, the signature has bar only, and
\* the docstring is attached.
C2_Witness ==
    /\ pc = "done"
    /\ "extra" \in DocKeysOf(request.parameters)
    /\ "extra" \in DocKeysOf(request.other_parameters)
    /\ SignatureNames = {"self", "bar"}
    /\ EntriesOf(f_doc, "Parameters") = <<"bar :">>

\* C3: under Parameters and under Other Parameters the entries are those of
\* the signature's parameters in declaration order, whatever the order of the
\* keys of the dict.
C3_SignatureOrder ==
    pc = "done" =>
        \A title \in {"Parameters", "Other Parameters"} :
            EntriesOf(f_doc, title)
                = [i \in DOMAIN ExpectedUnder(title) |-> HeadOf(ExpectedUnder(title)[i])]

\* C3 witness: the dict names baz before bar, the signature bar before baz.
C3_Witness ==
    /\ pc = "done"
    /\ request.parameters.kind = "Mapping"
    /\ Keys(request.parameters.items) = <<"baz", "bar">>
    /\ EntriesOf(f_doc, "Parameters") = <<"bar :", "baz :">>

(***************************************************************************)
(* Claims about returns, yields and receives.                              *)
(***************************************************************************)
ValueSections == {"Returns", "Yields", "Receives"}

PayloadOf(section) ==
    CASE section = "Returns" -> request.returns
      [] section = "Yields" -> request.yields
      [] section = "Receives" -> request.receives

IsTupleType(t) == t.tag = "generic" /\ t.name = "tuple"
IsVariadicTuple(t) == IsTupleType(t) /\ Ellipsis \in Range(t.args)
IsFixedTuple(t) == IsTupleType(t) /\ t.args # <<>> /\ Ellipsis \notin Range(t.args)

\* the declared type a section's payload is reconciled against: the return
\* type, its first type argument (yields) or its second (receives);
\* compatible is FALSE when the return type has no such component
DeclaredFor(section) ==
    LET ra == sig.return_annotation
        shaped(names) == ra.tag = "generic" /\ ra.name \in names
        pick(names, k) ==
            IF ra = Empty THEN [compatible |-> TRUE, t |-> Empty]
            ELSE IF ~shaped(names) THEN [compatible |-> FALSE, t |-> Empty]
            ELSE IF ra.args = <<>> THEN [compatible |-> TRUE, t |-> Empty]
            ELSE [compatible |-> TRUE, t |-> ra.args[k]]
    IN  CASE section = "Returns" -> [compatible |-> TRUE, t |-> ra]
          [] section = "Yields" -> pick({"Generator", "Iterator", "Iterable"}, 1)
          [] section = "Receives" -> pick({"Generator"}, 2)

\* the declared arity of section 4.2, for a payload of n entries
DeclaredArity(t, n) ==
    IF t = Empty THEN n ELSE IF IsFixedTuple(t) THEN Len(t.args) ELSE 1

\* the section's payload passes its own checks
Reconciles(section) ==
    LET p == PayloadOf(section)
        d == DeclaredFor(section)
    IN  /\ d.compatible
        /\ \/ p.kind = "str"
           \/ p.kind = "Mapping" /\ Len(p.items) = DeclaredArity(d.t, Len(p.items))

\* every parameter other than self is documented, by a dict or by its hint
AllDocumented ==
    \A i \in DOMAIN sig.parameters :
        \/ sig.parameters[i].name = "self"
        \/ sig.parameters[i].name \in DocumentedNames
        \/ HintText(sig.parameters[i]) # ""

\* the supplied payloads of these sections pass their checks
AllPass(sections) ==
    \A other \in sections : Supplied(PayloadOf(other)) => Reconciles(other)

Before(section) ==
    CASE section = "Returns" -> {}
      [] section = "Yields" -> {"Returns"}
      [] section = "Receives" -> {"Returns", "Yields"}

After(section) == ValueSections \ (Before(section) \cup {section})

\* the decorator gets as far as this section
GetsTo(section) == Decorated /\ AllDocumented /\ AllPass(Before(section))

\* the decorator gets as far as formatting this section's payload
Reaches(section) == GetsTo(section) /\ Supplied(PayloadOf(section))

\* nothing after this section raises
LastToRaise(section) == AllPass(After(section))

ArityErrors == {ErrMoreValues, ErrMoreTypes}

\* C4: a dict of N names reconciled against a declared fixed tuple of A >= 1
\* types passes iff N = A; more names than types and more types than names both
\* raise DocumentationError.  The same for returns (the return type), yields
\* (first type argument of Generator/Iterator/Iterable) and receives (second
\* type argument of Generator).  An empty dict is never handed to
\* format_returns_named by the decorator (the section is skipped); handed to it
\* directly, it is rejected like any other N < A.
C4_ArityLaw ==
    \A section \in ValueSections :
        LET p == PayloadOf(section)
            d == DeclaredFor(section)
            N == Len(p.items)
            A == Len(d.t.args)
        IN  (p.kind = "Mapping" /\ d.compatible /\ IsFixedTuple(d.t)) =>
                /\ format_returns_named(p.items, d.t).err
                       = IF N > A THEN ErrMoreValues
                         ELSE IF N < A THEN ErrMoreTypes ELSE NoError
                /\ Reaches(section) =>
                      /\ N > A => pc = "decorator_raised" /\ error = ErrMoreValues
                      /\ N < A => pc = "decorator_raised" /\ error = ErrMoreTypes
                      /\ N = A => /\ LastToRaise(section) => pc = "done"
                                  /\ pc = "done" => Len(EntriesOf(f_doc, section)) = N
                      /\ pc = "done" => N = A
                      /\ error.type \in {"", "DocumentationError"}

\* C4 witness: two names received against a declared fixed tuple of three
\* types, after yields passed.
C4_Witness ==
    /\ pc = "decorator_raised"
    /\ error = ErrMoreTypes
    /\ Reaches("Receives")
    /\ request.receives.kind = "Mapping"
    /\ Len(request.receives.items) = 2
    /\ DeclaredFor("Receives").t = FixedTuple(3)

\* C5: against a variadic tuple or a type that is no tuple, a dict of one name
\* passes and gives one slot `name : <the whole declared type>` ("tuple of str"
\* for Tuple[str, ...]); a dict of two or more names raises
\* DocumentationError.
C5_SingleSlot ==
    \A section \in ValueSections :
        LET p == PayloadOf(section)
            d == DeclaredFor(section)
            N == Len(p.items)
        IN  (/\ Reaches(section) /\ p.kind = "Mapping" /\ d.compatible
             /\ d.t # Empty /\ (IsVariadicTuple(d.t) \/ ~IsTupleType(d.t))) =>
                /\ N = 1 =>
                      /\ LastToRaise(section) => pc = "done"
                      /\ error \in ArityErrors => ~LastToRaise(section)
                      /\ pc = "done" =>
                            /\ EntriesOf(f_doc, section)
                                   = <<p.items[1].k \o " : " \o format_type(d.t)>>
                            /\ d.t = VariadicTuple =>
                                   EntriesOf(f_doc, section)
                                       = <<p.items[1].k \o " : tuple of str">>
                /\ N >= 2 => pc = "decorator_raised" /\ error = ErrMoreValues

\* C5 witness: one name returned against Tuple[str, ...].
C5_Witness ==
    /\ pc = "done"
    /\ sig.return_annotation = VariadicTuple
    /\ request.returns.kind = "Mapping"
    /\ EntriesOf(f_doc, "Returns") = <<"spam : tuple of str">>

C7_ReturnsYieldsConflict ==
    (pc # "start" /\ Supplied(request.returns) /\ Supplied(request.yields)) =>
        /\ pc = "doc_raised"
        /\ error = ErrBoth
        /\ error.type = "DocumentationError"
        /\ sig = NoSignature
        /\ f_doc = NoDoc

\* C7 witness: doc raised for a request with a returns dict and a yields text.
C7_Witness ==
    /\ pc = "doc_raised"
    /\ error = ErrBoth
    /\ request.returns.kind = "Mapping"
    /\ request.yields = PStr("the items")

\* C8: a request that supplies receives and no yields makes doc raise the
\* DocumentationError "if receives, must also have yields", before any
\* signature is looked at.
C8_ReceivesNeedsYields ==
    (pc # "start" /\ Supplied(request.receives) /\ ~Supplied(request.yields)) =>
        /\ pc = "doc_raised"
        /\ error = ErrReceives
        /\ error.type = "DocumentationError"
        /\ sig = NoSignature
        /\ f_doc = NoDoc

\* C8 witness: receives and returns are supplied, yields is an empty dict.
C8_Witness ==
    /\ pc = "doc_raised"
    /\ error = ErrReceives
    /\ Supplied(request.returns)
    /\ request.yields = PMap(<<>>)
    /\ request.receives.kind = "Mapping"

Canonical ==
    <<"Summary", "Deprecation", "ExtendedSummary", "Parameters", "Returns", "Yields",
      "Receives", "Other Parameters", "Raises", "Warns", "Warnings", "See Also",
      "Notes", "References", "Examples">>

\* the request argument a section is made from
InputOf(section) ==
    CASE section = "Summary" -> request.summary
      [] section = "Deprecation" -> request.deprecation
      [] section = "ExtendedSummary" -> request.extended_summary
      [] section = "Parameters" -> request.parameters
      [] section = "Returns" -> request.returns
      [] section = "Yields" -> request.yields
      [] section = "Receives" -> request.receives
      [] section = "Other Parameters" -> request.other_parameters
      [] section = "Raises" -> request.raises
      [] section = "Warns" -> request.warns
      [] section = "Warnings" -> request.warnings
      [] section = "See Also" -> request.see_also
      [] section = "Notes" -> request.notes
      [] section = "References" -> request.references
      [] section = "Examples" -> request.examples

\* the lines of f.__doc__ at which a section starts: its header, or for the
\* three sections without header the first line of their text
StartsOf(section) ==
    IF section \in {"Summary", "ExtendedSummary"}
    THEN IF Supplied(InputOf(section))
         THEN LET first == format_paragraph(InputOf(section).text)[1]
              IN  {i \in DOMAIN f_doc : f_doc[i] = first}
         ELSE {}
    ELSE IF section = "Deprecation"
    THEN IF Supplied(request.deprecation)
         THEN LET first == ".. deprecated:: " \o Get(request.deprecation.items, "version")
              IN  {i \in DOMAIN f_doc : f_doc[i].s = first}
         ELSE {}
    ELSE HeadersOf(f_doc, section)

Present == {k \in DOMAIN Canonical : StartsOf(Canonical[k]) # {}}

\* C9: in an attached docstring the sections stand in the canonical order
\* Summary, Deprecation, ExtendedSummary, Parameters, Returns, Yields,
\* Receives, Other Parameters, Raises, Warns, Warnings, See Also, Notes,
\* References, Examples, and none of them occurs twice.
C9_CanonicalOrder ==
    pc = "done" =>
        LET starts == [k \in DOMAIN Canonical |-> StartsOf(Canonical[k])]
        IN  /\ \A k \in DOMAIN Canonical : Cardinality(starts[k]) <= 1
            /\ \A a, b \in DOMAIN Canonical :
                   a < b => \A i \in starts[a], j \in starts[b] : i < j

\* C9 witness: a docstring with every section but Returns.
C9_Witness ==
    /\ pc = "done"
    /\ Present = DOMAIN Canonical \ {5}

\* C10 as stated: a section whose request argument is empty or absent is not
\* in the docstring, whatever the signature declares.
C10_SkippedWheneverEmpty ==
    pc = "done" =>
        LET present == Present
        IN  \A k \in DOMAIN Canonical :
                ~Supplied(InputOf(Canonical[k])) => k \notin present

\* C10 amended: a section whose request argument is empty or absent is not in
\* the docstring, unless it is Returns with returns and yields both None and a
\* declared return type other than None, or Parameters with a parameter that
\* carries an Annotated doc hint.
C10_SkippedWhenEmpty ==
    pc = "done" =>
        LET present == Present
        IN  \A k \in DOMAIN Canonical :
                ~Supplied(InputOf(Canonical[k])) =>
                    \/ k \notin present
                    \/ /\ Canonical[k] = "Returns"
                       /\ request.returns = PNone
                       /\ request.yields = PNone
                       /\ sig.return_annotation \notin {Empty, NoneValue, NoneType}
                    \/ /\ Canonical[k] = "Parameters"
                       /\ \E i \in DOMAIN sig.parameters : CarriesHint(sig.parameters[i])

\* C10 witness: returns is the empty text, yields an empty dict, the callable
\* declares -> str, and the docstring has neither Returns nor Parameters.
C10_Witness ==
    /\ pc = "done"
    /\ request.returns = PStr("")
    /\ request.yields = PMap(<<>>)
    /\ sig.return_annotation = Class("str")
    /\ ~HasSection(f_doc, "Returns")
    /\ ~HasSection(f_doc, "Parameters")

(***************************************************************************)
(* Claims about the Returns section derived from the return type.          *)
(***************************************************************************)
NonBlank(lines) == SelectSeq(lines, LAMBDA l : l.s # "")

\* the components of a declared return type: the elements of a fixed tuple,
\* otherwise the type as a whole
ComponentsOf(t) == IF IsFixedTuple(t) THEN t.args ELSE <<t>>

HasHint(t) == t.tag = "generic" /\ t.name = "Annotated" /\ t.args[2].tag = "str"

\* the unnamed slot of one component: its type, then the text of its hint
AutoSlot(t) ==
    <<Line(0, format_type(t))>>
    \o (IF HasHint(t) THEN NonBlank(format_indented_paragraph(t.args[2].name)) ELSE <<>>)

\* C11: when returns and yields are both None and the return type is declared
\* and not None, the docstring has a Returns section with one unnamed slot per
\* component of the type (the type, then the text of its Annotated hint if it
\* has one); when the return type is None or absent it has no Returns section.
C11_AutomaticReturns ==
    (pc = "done" /\ request.returns = PNone /\ request.yields = PNone) =>
        IF sig.return_annotation \in {Empty, NoneValue, NoneType}
        THEN ~HasSection(f_doc, "Returns")
        ELSE /\ HasSection(f_doc, "Returns")
             /\ LET slots == ComponentsOf(sig.return_annotation)
                IN  NonBlank(BodyOf(f_doc, "Returns"))
                    = Flatten([i \in DOMAIN slots |-> AutoSlot(slots[i])])

\* the same, for the declared types other than a tuple without type arguments
\* and a type whose Annotated hint is the empty text
C11_AutomaticReturnsElsewhere ==
    (/\ sig.return_annotation # TupleOf(<<>>)
     /\ ~(HasHint(sig.return_annotation) /\ sig.return_annotation.args[2].name = ""))
    => C11_AutomaticReturns

\* C11 failing input: returns and yields are None, the callable declares
\* -> Tuple, and the attached docstring has no Returns section.
C11_Witness ==
    /\ pc = "done"
    /\ request.returns = PNone
    /\ request.yields = PNone
    /\ sig.return_annotation = TupleOf(<<>>)
    /\ ~HasSection(f_doc, "Returns")

\* a returns dict with the names spam and eggs, in either order, documented
\* against the declared Tuple[str, int], and the docstring attached
SpamAndEggs ==
    /\ pc = "done"
    /\ request.returns.kind = "Mapping"
    /\ Len(request.returns.items) = 2
    /\ DocKeysOf(request.returns) = {"spam", "eggs"}
    /\ sig.return_annotation = TupleOf(<<Class("str"), Class("int")>>)

\* C12 as stated: the Returns section reads `spam : str` then `eggs : int`,
\* whichever of the two names the dict holds first.
C12_DeclaredOrderWins ==
    SpamAndEggs => EntriesOf(f_doc, "Returns") = <<"spam : str", "eggs : int">>

\* C12 amended: the i-th name of the dict is paired with the i-th declared
\* type: `spam : str`, `eggs : int` when spam was inserted first, and
\* `eggs : str`, `spam : int` when eggs was.
C12_InsertionOrderPairs ==
    SpamAndEggs =>
        LET names == Keys(request.returns.items)
        IN  /\ names = <<"spam", "eggs">> =>
                EntriesOf(f_doc, "Returns") = <<"spam : str", "eggs : int">>
            /\ names = <<"eggs", "spam">> =>
                EntriesOf(f_doc, "Returns") = <<"eggs : str", "spam : int">>

\* C12 witness: eggs was inserted first and is the slot typed str.
C12_Witness ==
    /\ SpamAndEggs
    /\ Keys(request.returns.items) = <<"eggs", "spam">>
    /\ EntriesOf(f_doc, "Returns") = <<"eggs : str", "spam : int">>

(***************************************************************************)
(* Claims about failure.                                                   *)
(***************************************************************************)

C15_Idempotence ==
    (Len(formatted) = 2 /\ formatted[2].err = NoError) =>
        formatted[2].text = formatted[1].text

\* C15 failing input: a prompt line between triple quotes; the first pass
\* leaves three newlines after it, the second pass two.
C15_Witness ==
    /\ block = Quoted(<<">", ">", ">", " ", "a">>)
    /\ Len(formatted) = 2
    /\ formatted[1].text = <<">", ">", ">", " ", "a", NL, NL, NL>>
    /\ formatted[2].text = <<">", ">", ">", " ", "a", NL, NL>>

\* the paragraphs format_paragraphs sees in a block
ParagraphsOf(b) == text_split(text_dedent(text_strip(b, {NL})), <<NL, NL>>)

\* the words of the paragraph are one space or one newline apart
SingleSpaced(paragraph) ==
    LET inner == text_strip(paragraph, Whitespace)
    IN  \A i \in 1..(Len(inner) - 1) : ~(inner[i] \in Whitespace /\ inner[i + 1] \in Whitespace)

\* a block of which every paragraph is filled, and single spaced
AllFilled(b) ==
    \A i \in DOMAIN ParagraphsOf(b) :
        /\ ~left_as_is(ParagraphsOf(b)[i])
        /\ SingleSpaced(ParagraphsOf(b)[i])

\* the line up to its first space
FirstWord(line) ==
    LET spaces == {i \in DOMAIN line : line[i] = " "}
    IN  IF spaces = {} THEN line
        ELSE SubSeq(line, 1, (CHOOSE i \in spaces : \A j \in spaces : i <= j) - 1)

\* no line of the text is longer than width, and where a line follows a line,
\* the first word of the second would not have fitted on the first
Packed(text, width) ==
    LET lines == text_split(text, <<NL>>)
    IN  /\ \A i \in DOMAIN lines : Len(lines[i]) <= width
        /\ \A i \in 1..(Len(lines) - 1) :
               (lines[i] # <<>> /\ lines[i + 1] # <<>>) =>
                   Len(lines[i]) + 1 + Len(FirstWord(lines[i + 1])) > width

Ink(text) == SelectSeq(text, LAMBDA c : c \notin Whitespace)

\* the words of the text, in order
Words(text) ==
    LET spaced == [i \in DOMAIN text |-> IF text[i] \in Whitespace THEN " " ELSE text[i]]
    IN  SelectSeq(text_split(spaced, <<" ">>), LAMBDA w : w # <<>>)

\* the paragraph begins with a space, with "..", with ">" or with "["
BeginsVerbatim(paragraph) ==
    /\ paragraph # <<>>
    /\ \/ paragraph[1] \in {" ", ">", "["}
       \/ Len(paragraph) >= 2 /\ paragraph[1] = "." /\ paragraph[2] = "."

\* the text with a capital first letter, and a full stop unless it ends a
\* sentence already
Sentence(text) ==
    LET capital == CASE text[1] = "a" -> "A" [] text[1] = "b" -> "B" [] text[1] = "x" -> "X"
                     [] text[1] = "y" -> "Y" [] OTHER -> text[1]
        stop == IF text[Len(text)] \in {".", "!", "?", ":"} THEN <<>> ELSE <<".">>
    IN  <<capital>> \o Tail(text) \o stop

\* filled is the paragraph capitalized, punctuated and filled: the same words
\* in the same order (the same characters, where a word is too long for a
\* line), no blank line, no space at either end of a line and, for a
\* single-spaced paragraph, lines packed to the width
FilledFrom(paragraph, filled) ==
    IF Ink(paragraph) = <<>> THEN filled = <<>>
    ELSE LET sentence == Sentence(text_strip(paragraph, Whitespace))
         IN  /\ Ink(filled) = Ink(sentence)
             /\ (\A i \in DOMAIN Words(sentence) : Len(Words(sentence)[i]) <= FillWidth)
                    => Words(filled) = Words(sentence)
             /\ \A i \in DOMAIN text_split(filled, <<NL>>) :
                    LET line == text_split(filled, <<NL>>)[i]
                    IN  line # <<>> /\ line[1] # " " /\ line[Len(line)] # " "
             /\ SingleSpaced(paragraph) => Packed(filled, FillWidth)

\* text is the paragraphs in order, each followed by a blank line: those that
\* begin verbatim copied, the others filled
RECURSIVE Rendered(_, _)
Rendered(paragraphs, text) ==
    IF paragraphs = <<>> THEN text = <<>>
    ELSE LET ends == {i \in 1..(Len(text) - 1) : text[i] = NL /\ text[i + 1] = NL}
             n == IF BeginsVerbatim(paragraphs[1]) THEN Len(paragraphs[1])
                  ELSE IF ends = {} THEN Len(text)
                  ELSE (CHOOSE i \in ends : \A j \in ends : i <= j) - 1
         IN  /\ Len(text) >= n + 2
             /\ SubSeq(text, n + 1, n + 2) = <<NL, NL>>
             /\ IF BeginsVerbatim(paragraphs[1])
                THEN SubSeq(text, 1, n) = paragraphs[1]
                ELSE FilledFrom(paragraphs[1], SubSeq(text, 1, n))
             /\ Rendered(Tail(paragraphs), SubSeq(text, n + 3, Len(text)))

\* C17: format_paragraphs gives, for every block, its paragraphs in order and
\* one blank line after each: a paragraph that after the dedent begins with a
\* space, "..", ">" or "[" is copied as it is, every other paragraph is
\* capitalized, punctuated and filled.
C17_VerbatimOrFilled ==
    Len(formatted) >= 1 =>
        /\ formatted[1].err = NoError
        /\ Rendered(ParagraphsOf(block), formatted[1].text)

\* C17 where the call returns: the result is the paragraphs in order, copied
\* or filled as C17 says.
C17_VerbatimOrFilledWhenReturned ==
    (Len(formatted) >= 1 /\ formatted[1].err = NoError) =>
        Rendered(ParagraphsOf(block), formatted[1].text)

\* C17 failing input: a paragraph, then two blank lines before the closing
\* quotes; the call raises IndexError.
C17_Witness ==
    /\ block = Quoted(<<"a", NL, "b", NL, NL>>)
    /\ ParagraphsOf(block) = << <<"a", NL, "b">>, <<NL>> >>
    /\ Len(formatted) = 1
    /\ formatted[1].err = IndexError

\* C17, a block where both kinds of paragraph occur: the prompt is copied, the
\* prose is filled.
C17_Mixed ==
    /\ block = <<">", ">", ">", " ", "a", NL, NL, "a", NL, "b">>
    /\ Len(formatted) >= 1
    /\ formatted[1].text = <<">", ">", ">", " ", "a", NL, NL, "A", " ", "b", ".", NL, NL>>

(***************************************************************************)
(* Claims about the header line of a parameter.                            *)
(***************************************************************************)

\* the one parameter of the decorated function is documented
Listed == pc = "done" /\ Len(sig.parameters) = 1 /\ HeadersOf(f_doc, "Parameters") # {}

\* and it is a standard parameter, not *args or **kwargs
Headed == Listed /\ sig.parameters[1].kind \notin {"VAR_POSITIONAL", "VAR_KEYWORD"}

\* its header line
HeaderLine == f_doc[(CHOOSE i \in HeadersOf(f_doc, "Parameters") : TRUE) + 2].s

\* what follows the type on the header line of a parameter with the default d
DefaultTail(d) ==
    CASE d = NoDefault -> ""
      [] d = NoneValue -> ", optional"
      [] d = LitValue("42") -> ", optional, default: 42"
      [] d = LitValue("True") -> ", optional, default: True"
      [] d = StrMeta("spam") -> ", optional, default: 'spam'"

\* the header line names the type as text
TypeShown(text) ==
    HeaderLine = sig.parameters[1].name \o " : " \o text \o DefaultTail(sig.parameters[1].default)

\* a union of the null type and one other member
Nullable(t) ==
    /\ t.tag = "generic" /\ t.name = "Union" /\ Len(t.args) = 2
    /\ \E i \in 1..2 : t.args[i] = NoneType /\ t.args[3 - i] # NoneType

NonNull(t) == IF t.args[1] = NoneType THEN t.args[2] ELSE t.args[1]

\* C18 as stated: a union of the null type and one other member x is shown
\* as humanize(x) followed by " or None", wherever the null type stands.
C18_OrNone ==
    (Headed /\ sig.parameters[1].annotation # Empty /\ Nullable(sig.parameters[1].annotation)) =>
        TypeShown(format_type(NonNull(sig.parameters[1].annotation)) \o " or None")

\* C18 where the null type is written last (Optional[x], Union[x, None]) the
\* union is shown as humanize(x) followed by " or None"; where it is written
\* first, as "None or " followed by humanize(x).
C18_OrNoneAsWritten ==
    (Headed /\ sig.parameters[1].annotation # Empty /\ Nullable(sig.parameters[1].annotation)) =>
        LET t == sig.parameters[1].annotation
        IN  IF t.args[1] = NoneType
            THEN TypeShown("None or " \o format_type(t.args[2]))
            ELSE TypeShown(format_type(t.args[1]) \o " or None")

\* C18 failing input: Union[None, int] is shown as "None or int".
C18_Witness ==
    /\ Headed
    /\ sig.parameters[1].annotation = Generic("Union", <<NoneType, Class("int")>>)
    /\ HeaderLine = "bar : None or int"

\* C18, the shorthand: Optional[List[int]] is shown as "list of int or None".
C18_Shorthand ==
    /\ Headed
    /\ sig.parameters[1].annotation = Optional(Generic("list", <<Class("int")>>))
    /\ HeaderLine = "bar : list of int or None"

\* a parameterized type that format_type has no rule for: a mapping, a tuple
\* of fixed length
Structural(t) ==
    /\ t.tag = "generic" /\ t.args # <<>>
    /\ \/ t.name = "dict"
       \/ t.name = "tuple" /\ Ellipsis \notin Range(t.args)

\* the name typing prints for the origin
Printed(origin) ==
    CASE origin = "dict" -> "Dict" [] origin = "tuple" -> "Tuple" [] origin = "list" -> "List"
      [] OTHER -> origin

\* the type in the notation of typing: Optional[x], Union[a, b], List[x],
\* Dict[k, v], Tuple[a, b], Tuple[x, ...]
RECURSIVE Notation(_)
Notation(t) ==
    IF t = NoneType THEN "NoneType"
    ELSE IF t.tag # "generic" THEN t.name
    ELSE IF Nullable(t) THEN "Optional[" \o Notation(NonNull(t)) \o "]"
    ELSE Printed(t.name) \o "[" \o Join(", ", [i \in DOMAIN t.args |-> Notation(t.args[i])]) \o "]"

ReprOf(d) == IF d.tag = "str" THEN "'" \o d.name \o "'" ELSE d.name

\* C20 as stated: the header line of a standard parameter with a default and
\* no declared type has no type and reads `optional, default=<repr>` after
\* the name.
C20_DefaultEquals ==
    (Headed /\ sig.parameters[1].annotation = Empty /\ sig.parameters[1].default # NoDefault) =>
        HeaderLine = "bar : optional, default=" \o ReprOf(sig.parameters[1].default)

\* C20 amended: the header line of a standard parameter with a default and no
\* declared type has no type and reads `optional, default: <repr>` after the
\* name, and only `optional` when the default is None.
C20_DefaultColon ==
    (Headed /\ sig.parameters[1].annotation = Empty /\ sig.parameters[1].default # NoDefault) =>
        HeaderLine = IF sig.parameters[1].default = NoneValue THEN "bar : optional"
                     ELSE "bar : optional, default: " \o ReprOf(sig.parameters[1].default)

\* C20 witness: an untyped parameter with the default 'spam'.
C20_Witness ==
    /\ Headed
    /\ sig.parameters[1] = Param("bar", POK, Empty, StrMeta("spam"))
    /\ HeaderLine = "bar : optional, default: 'spam'"

\* C21 as stated: a standard parameter with neither a declared type nor a
\* default has its bare name as header line, with no " :" after it.
C21_BareName ==
    (Headed /\ sig.parameters[1].annotation = Empty /\ sig.parameters[1].default = NoDefault) =>
        HeaderLine = sig.parameters[1].name

\* C21 amended: the header line of a standard parameter begins with the name
\* followed by " :", whether or not a type or an optionality suffix follows;
\* with neither a declared type nor a default the header line is the name
\* and " :" and nothing more.
C21_NameAndColon ==
    Headed =>
        IF sig.parameters[1].annotation = Empty /\ sig.parameters[1].default = NoDefault
        THEN HeaderLine = sig.parameters[1].name \o " :"
        ELSE \/ /\ sig.parameters[1].annotation # Empty
                /\ TypeShown(format_type(sig.parameters[1].annotation))
             \/ /\ sig.parameters[1].annotation = Empty
                /\ HeaderLine \in {"bar : optional", "bar : optional, default: 42",
                                   "bar : optional, default: True",
                                   "bar : optional, default: 'spam'"}

\* C21 witness: def foo(bar) documented; the header line is "bar :".
C21_Witness ==
    /\ Headed
    /\ sig.parameters[1] = Param("bar", POK, Empty, NoDefault)
    /\ HeaderLine = "bar :"

\* C22: the header line of a standard parameter with a default reads
\* "optional" after the name and " :" (after the type and ", " where a type
\* is declared), then ", default: " and the repr of the default, unless the
\* default is None, which is not shown; *bar and **bar are listed as "*bar"
\* and "**bar", with neither type nor default.
C22_OptionalAndDefault ==
    Listed =>
        LET param == sig.parameters[1]
            default == IF param.default = NoneValue THEN ""
                       ELSE ", default: " \o ReprOf(param.default)
        IN  CASE param.kind = "VAR_POSITIONAL" -> HeaderLine = "*bar"
              [] param.kind = "VAR_KEYWORD" -> HeaderLine = "**bar"
              [] OTHER ->
                   param.default # NoDefault =>
                       IF param.annotation = Empty
                       THEN HeaderLine = "bar : optional" \o default
                       ELSE HeaderLine = "bar : " \o format_type(param.annotation)
                                         \o ", optional" \o default

\* C22 witness: a typed parameter with the default None, and a typed *bar.
C22_Witness ==
    /\ Listed
    /\ \/ /\ sig.parameters[1] = Param("bar", POK, Class("int"), NoneValue)
          /\ HeaderLine = "bar : int, optional"
       \/ /\ sig.parameters[1] = Param("bar", "VAR_POSITIONAL", Class("int"), NoDefault)
          /\ HeaderLine = "*bar"

C24_BareAccepted ==
    (Reaches("Yields") /\ request.yields.kind \in {"str", "Mapping"}) =>
        LET ra == sig.return_annotation
            p == request.yields
            shaped == ra.name \in {"Generator", "Iterator", "Iterable"}
        IN  IF ra # Empty /\ ~shaped
            THEN /\ pc = "decorator_raised"
                 /\ error = ErrYields
                 /\ f_doc = NoDoc
            ELSE (ra = Empty \/ ra.args = <<>>) =>
                    /\ error # ErrYields
                    /\ LastToRaise("Yields") =>
                           /\ pc = "done"
                           /\ EntriesOf(f_doc, "Yields") =
                                  IF p.kind = "str" THEN <<"The items.">>
                                  ELSE [i \in DOMAIN p.items |-> p.items[i].k \o " :"]

\* C24 for return types with an origin: a declared return type whose origin is
\* not Generator, Iterator or Iterable (a tuple, a str, None, an Annotated
\* type, and also the unsubscripted class collections.abc.Iterator, which has
\* no origin) makes the decorator raise the DocumentationError "return type
\* ... is not compatible with yields" and attach nothing; without a return
\* annotation, or with a bare typing.Generator, typing.Iterator or
\* typing.Iterable, yields is accepted and rendered without a type: the
\* paragraph of a text, "name :" for each name of a dict.
C24_YieldsCompatibility ==
    (Reaches("Yields") /\ request.yields.kind \in {"str", "Mapping"}) =>
        LET ra == sig.return_annotation
            p == request.yields
            shaped == ra.tag = "generic" /\ ra.name \in {"Generator", "Iterator", "Iterable"}
        IN  IF ra # Empty /\ ~shaped
            THEN /\ pc = "decorator_raised"
                 /\ error = ErrYields
                 /\ error.type = "DocumentationError"
                 /\ f_doc = NoDoc
            ELSE (ra = Empty \/ ra.args = <<>>) =>
                    /\ error # ErrYields
                    /\ LastToRaise("Yields") =>
                           /\ pc = "done"
                           /\ EntriesOf(f_doc, "Yields") =
                                  IF p.kind = "str" THEN <<"The items.">>
                                  ELSE [i \in DOMAIN p.items |-> p.items[i].k \o " :"]

\* C24 witness: yields is a text, the callable is declared to return a bare
\* collections.abc.Iterator, and the decorator raised DocumentationError.
C24_Witness ==
    /\ Reaches("Yields")
    /\ request.yields = PStr("the items")
    /\ sig.return_annotation = Class("Iterator")
    /\ pc = "decorator_raised"
    /\ error = ErrYields
    /\ f_doc = NoDoc

\* yields is a dict of two names and the callable returns a bare
\* typing.Iterator: both names are listed without a type
C24_Untyped ==
    /\ Reaches("Yields")
    /\ request.yields = NamedValues(<<"spam", "eggs">>)
    /\ sig.return_annotation = Generic("Iterator", <<>>)
    /\ pc = "done"
    /\ EntriesOf(f_doc, "Yields") = <<"spam :", "eggs :">>

\* C25: the decorator raises for the first violation it comes to, and for
\* that one only.  A parameter without documentation is reported (the first
\* one in declaration order) whatever is wrong with returns, yields or
\* receives; where every parameter is documented and returns passes, a yields
\* that fails (payload of another type, incompatible return type, arity) is
\* reported whatever is wrong with receives.  A decorator that raised holds one
\* error and attached nothing; one that finished holds none.
C25_FirstViolation ==
    Decorated =>
        LET undocumented == SelectSeq(sig.parameters,
                                      LAMBDA param : /\ param.name # "self"
                                                     /\ param.name \notin DocumentedNames
                                                     /\ HintText(param) = "")
            y == request.yields
            d == DeclaredFor("Yields")
            yields_error ==
                IF y.kind \notin {"str", "Mapping"}
                THEN TypeError("yields must be str or Mapping")
                ELSE IF ~d.compatible THEN ErrYields
                ELSE IF Len(y.items) > DeclaredArity(d.t, Len(y.items))
                THEN ErrMoreValues ELSE ErrMoreTypes
        IN  /\ undocumented # <<>> =>
                  pc = "decorator_raised" /\ error = ErrMissing(undocumented[1].name)
            /\ (/\ undocumented = <<>>
                /\ AllPass({"Returns"})
                /\ Supplied(y) /\ ~Reconciles("Yields")) =>
                  pc = "decorator_raised" /\ error = yields_error
            /\ pc = "decorator_raised" => error # NoError /\ f_doc = NoDoc
            /\ pc = "done" => error = NoError /\ f_doc # NoDoc

\* C25 witness: bar is undocumented and two names are returned against a
\* Tuple of three types, and the error is the one about bar; or yields has more
\* names than the Iterator yields and receives is given though an Iterator
\* receives nothing, and the error is the one of yields.
C25_Witness ==
    /\ pc = "decorator_raised"
    /\ \/ /\ sig.parameters = <<Param("bar", POK, Empty, NoDefault)>>
          /\ request.parameters = PNone
          /\ Len(request.returns.items) = 2
          /\ sig.return_annotation = FixedTuple(3)
          /\ error = ErrMissing("bar")
       \/ /\ sig.parameters = <<>>
          /\ Len(request.yields.items) = 2
          /\ Supplied(request.receives)
          /\ sig.return_annotation = Generic("Iterator", <<FixedTuple(1)>>)
          /\ ~Reconciles("Receives")
          /\ error = ErrMoreValues

\* C26 as stated: in a docstring that was attached, every parameter other
\* than self has exactly one entry in the Parameters and Other Parameters
\* sections taken together.
C26_ListedOnce ==
    pc = "done" =>
        LET listed == EntriesOf(f_doc, "Parameters") \o EntriesOf(f_doc, "Other Parameters")
        IN  \A i \in DOMAIN sig.parameters :
                sig.parameters[i].name # "self" =>
                    Cardinality({k \in DOMAIN listed :
                                    listed[k] = HeadOf(sig.parameters[i])}) = 1

\* C26 witness: bar carries an Annotated hint and is a key of other_parameters
\* only; the docstring attached lists it under Parameters and under Other
\* Parameters.
C26_Witness ==
    /\ pc = "done"
    /\ Len(sig.parameters) = 1
    /\ sig.parameters[1].name = "bar"
    /\ HintText(sig.parameters[1]) # ""
    /\ request.parameters = PNone
    /\ "bar" \in DocKeysOf(request.other_parameters)
    /\ EntriesOf(f_doc, "Parameters") = <<HeadOf(sig.parameters[1])>>
    /\ EntriesOf(f_doc, "Other Parameters") = <<HeadOf(sig.parameters[1])>>

\* what holds instead: a parameter has one entry under Parameters when it is a
\* key of parameters or carries a hint, and one under Other Parameters when it
\* is a key of other_parameters
C26_ListedPerSection ==
    pc = "done" =>
        \A title \in {"Parameters", "Other Parameters"} :
            EntriesOf(f_doc, title)
                = [k \in DOMAIN ExpectedUnder(title) |-> HeadOf(ExpectedUnder(title)[k])]

\* C27 as stated: returns given as a tuple of K names against a declared
\* fixed tuple of A types is accepted iff K = A; K < A and K > A both raise
\* DocumentationError, and a docstring that is attached has a Returns entry
\* for every name supplied.
C27_TupleArity ==
    (/\ Decorated /\ AllDocumented
     /\ request.returns.kind = "tuple"
     /\ IsFixedTuple(sig.return_annotation)) =>
        LET K == Len(request.returns.items)
            A == Len(sig.return_annotation.args)
        IN  /\ pc = "done" <=> K = A
            /\ K # A => pc = "decorator_raised" /\ error.type = "DocumentationError"
            /\ pc = "done" => Len(EntriesOf(f_doc, "Returns")) = K

\* C27 witness: the names ("spam", "eggs") against Tuple[str]: the docstring is
\* attached and its Returns section holds the one entry "spam : str".
C27_Witness ==
    /\ pc = "done"
    /\ request.returns = PTuple(<<"spam", "eggs">>)
    /\ sig.return_annotation = FixedTuple(1)
    /\ EntriesOf(f_doc, "Returns") = <<"spam : str">>

\* what holds instead: fewer names than types raise "more types than values
\* documented"; otherwise the first A names are listed with their types and the
\* names beyond them are left out
C27_TupleZip ==
    (/\ Decorated /\ AllDocumented
     /\ request.returns.kind = "tuple"
     /\ IsFixedTuple(sig.return_annotation)) =>
        LET names == request.returns.items
            types == sig.return_annotation.args
        IN  IF Len(names) < Len(types)
            THEN pc = "decorator_raised" /\ error = ErrMoreTypes
            ELSE /\ pc = "done"
                 /\ EntriesOf(f_doc, "Returns")
                        = [i \in DOMAIN types |-> names[i].k \o " : " \o format_type(types[i])]

C29_ExclusiveSections ==
    pc = "done" =>
        /\ ~(HasSection(f_doc, "Returns") /\ HasSection(f_doc, "Yields"))
        /\ HasSection(f_doc, "Receives") => HasSection(f_doc, "Yields")

\* C29 witness: yields and receives are documented for a callable declared to
\* return Generator[str, str, None]; the docstring has Yields and Receives and,
\* the return type notwithstanding, no Returns.
C29_Witness ==
    /\ pc = "done"
    /\ request.returns = PNone
    /\ sig.return_annotation = Generic("Generator", <<Class("str"), Class("str"), NoneType>>)
    /\ HasSection(f_doc, "Yields")
    /\ HasSection(f_doc, "Receives")
    /\ ~HasSection(f_doc, "Returns")

\* C30 as stated: in a docstring that was attached no section consists of its
\* header alone; the Parameters and Other Parameters headers appear only with
\* at least one parameter of the signature listed under them.
C30_NoEmptySection ==
    pc = "done" =>
        /\ \A k \in DOMAIN Titles :
               HasSection(f_doc, Titles[k]) =>
                   \E i \in DOMAIN BodyOf(f_doc, Titles[k]) :
                       BodyOf(f_doc, Titles[k])[i].s # ""
        /\ \A title \in {"Parameters", "Other Parameters"} :
               HasSection(f_doc, title) => ExpectedUnder(title) # <<>>

\* C30 witness: parameters names only "extra", the callable takes nothing, and
\* the docstring attached has the Parameters header with nothing under it.
C30_Witness ==
    /\ pc = "done"
    /\ sig.parameters = <<>>
    /\ DocKeysOf(request.parameters) = {"extra"}
    /\ HasSection(f_doc, "Parameters")
    /\ EntriesOf(f_doc, "Parameters") = <<>>
    /\ \A i \in DOMAIN BodyOf(f_doc, "Parameters") : BodyOf(f_doc, "Parameters")[i].s = ""

\* what holds instead: the two headers appear exactly when the dict the
\* section is made from is not empty (for Parameters, hints included), and every
\* other section has a body
C30_HeaderIffDict ==
    pc = "done" =>
        /\ HasSection(f_doc, "Parameters") <=>
               \/ Truthy(request.parameters)
               \/ \E i \in DOMAIN sig.parameters : HintText(sig.parameters[i]) # ""
        /\ HasSection(f_doc, "Other Parameters") <=> Truthy(request.other_parameters)
        /\ \A k \in DOMAIN Titles :
               (Titles[k] \notin {"Parameters", "Other Parameters"}
                /\ HasSection(f_doc, Titles[k])) =>
                   \E i \in DOMAIN BodyOf(f_doc, Titles[k]) :
                       BodyOf(f_doc, Titles[k])[i].s # ""

====
